---- MODULE Spec2Model ----
(***************************************************************************)
(* A model of the game simulation core of bombman.py: GameMap (tiles,      *)
(* bombs, flames, round state machine), Bomb, Player.react_to_inputs and   *)
(* Game.simulation_step.                                                   *)
(*                                                                         *)
(* Sub-tile positions (Python floats, in tiles) are integers in            *)
(* thousandths of a tile, so 0.5 tile is 500; times are integers in ms as  *)
(* in the source.  The arithmetic of the model is exact where the source   *)
(* rounds to binary floating point.                                        *)
(*                                                                         *)
(* A Python exception (an IndexError of list indexing) ends the program:   *)
(* the model records it in the world's err field and the variable crashed. *)
(* Python's negative list indices wrap around, and the model keeps that.   *)
(***************************************************************************)
EXTENDS Integers, Sequences, FiniteSets, TLC

(* ------------------------------ bounds -------------------------------- *)
\* GameMap.MAP_SIZE scaled down (the source has 15 x 11).
MapCols == 6
MapRows == 4
\* the map clock stops the exploration here (ms)
MaxTime == 8600
\* pygame.time.get_ticks() when the map is constructed (ms spent in the menus)
WallOffsetAtStart == 2000

(* ------------------------- program constants -------------------------- *)
Milli == 1000
TILE_FLOOR == 0
TILE_BLOCK == 1
TILE_WALL == 2

\* None, apart from every item and object code and from the -1 of letter_to_item
NoObject == -2
SPECIAL_OBJECT_TRAMPOLINE == 0
SPECIAL_OBJECT_TELEPORT_A == 1
SPECIAL_OBJECT_TELEPORT_B == 2
SPECIAL_OBJECT_ARROW_UP == 3
SPECIAL_OBJECT_ARROW_RIGHT == 4
SPECIAL_OBJECT_ARROW_DOWN == 5
SPECIAL_OBJECT_ARROW_LEFT == 6
SPECIAL_OBJECT_LAVA == 7

ITEM_BOMB == 0
ITEM_FLAME == 1
ITEM_SUPERFLAME == 2
ITEM_SPEEDUP == 3
ITEM_DISEASE == 4
ITEM_RANDOM == 5
ITEM_SPRING == 6
ITEM_SHOE == 7
ITEM_MULTIBOMB == 8
ITEM_BOXING_GLOVE == 9
ITEM_DETONATOR == 10
ITEM_THROWING_GLOVE == 11

SAFE_DANGER_VALUE == 5000
GIVE_AWAY_DELAY == 3000
START_GAME_AFTER == 2500
END_GAME_DELAY == 5000
ANNOUNCE_WIN_DELAY == 2000
EARTHQUAKE_DURATION == 10000

STATE_WAITING_TO_PLAY == 0
STATE_PLAYING == 1
STATE_FINISHING == 2
STATE_GAME_OVER == 3

COLLISION_BORDER_UP == 0
COLLISION_BORDER_RIGHT == 1
COLLISION_BORDER_DOWN == 2
COLLISION_BORDER_LEFT == 3
COLLISION_TOTAL == 4
COLLISION_NONE == 5
WALL_MARGIN_HORIZONTAL == 200
WALL_MARGIN_VERTICAL == 400

STATE_IDLE_UP == 0
STATE_IDLE_RIGHT == 1
STATE_IDLE_DOWN == 2
STATE_IDLE_LEFT == 3
STATE_WALKING_UP == 4
STATE_WALKING_RIGHT == 5
STATE_WALKING_DOWN == 6
STATE_WALKING_LEFT == 7
STATE_IN_AIR == 8
STATE_TELEPORTING == 9
STATE_DEAD == 10

DISEASE_NONE == 0
DISEASE_DIARRHEA == 1
DISEASE_SLOW == 2
DISEASE_REVERSE_CONTROLS == 3
DISEASE_SHORT_FLAME == 4
DISEASE_SWITCH_PLAYERS == 5
DISEASE_FAST_BOMB == 6
DISEASE_NO_BOMB == 7
DISEASE_EARTHQUAKE == 8

INITIAL_SPEED == 3
MAX_SPEED == 10
SPEEDUP_VALUE == 1
DISEASE_TIME == 20000
JUMP_DURATION == 2000
TELEPORT_DURATION == 1500
THROWING_TIME == 200

ROLLING_SPEED == 4
FLYING_SPEED == 5
BOMB_ROLLING_UP == 0
BOMB_ROLLING_RIGHT == 1
BOMB_ROLLING_DOWN == 2
BOMB_ROLLING_LEFT == 3
BOMB_FLYING == 4
BOMB_NO_MOVEMENT == 5
DETONATOR_EXPIRATION_TIME == 20000
DETONATOR_DANGER == 100
BOMB_EXPLODES_IN == 3000
EXPLODES_IN_QUICK == 800
FLAME_BURNOUT == 1000
NEAR_CENTER_LIMIT == 200
MAX_DT == 100

ACTION_UP == 0
ACTION_RIGHT == 1
ACTION_DOWN == 2
ACTION_LEFT == 3
ACTION_BOMB == 4
ACTION_SPECIAL == 5
ACTION_BOMB_DOUBLE == 7

(* ------------------------------ state --------------------------------- *)
VARIABLES
    tiles,      \* GameMap.tiles: [<<col,row>> -> MapTile]
    bombs,      \* GameMap.bombs: sequence of Bomb
    players,    \* GameMap.players: sequence of Player
    gm,         \* the scalar attributes of GameMap
    give,       \* GameMap.items_to_give_away
    danger,     \* GameMap.danger_map and danger_map_is_up_to_date
    log,        \* history: one entry per bomb_explodes call (the explosion sound events)
    notified,   \* history: for the k-th Bomb object created, the number of Player.bomb_exploded calls for it
    phase,      \* position in Game.simulation_step: "inputs" or "update"
    cur,        \* the dt and the intents of the running simulation step, and the pre-step snapshot
    probe,      \* the result of the last map query
    ais,        \* Game.ais: sequence of AI
    crashed     \* an exception ended the program

vars == <<tiles, bombs, players, gm, give, danger, log, notified, phase, cur, probe, ais, crashed>>

(* ----------------------------- helpers -------------------------------- *)
Min(a, b) == IF a < b THEN a ELSE b
Max(a, b) == IF a > b THEN a ELSE b
Abs(a) == IF a < 0 THEN -a ELSE a
Range(s) == {s[i] : i \in DOMAIN s}
RemoveAt(s, i) == [j \in 1..(Len(s) - 1) |-> IF j < i THEN s[j] ELSE s[j + 1]]
Pos == (0..(MapCols - 1)) \X (0..(MapRows - 1))
NoPos == <<>>

(* ----------------------------- geometry ------------------------------- *)
\* Positionable.position_to_tile: floor of both coordinates
position_to_tile(x, y) == <<x \div Milli, y \div Milli>>

\* Positionable.move_to_tile_center with no argument
center_of(x, y) == <<(x \div Milli) * Milli + 500, (y \div Milli) * Milli + 500>>

\* Positionable.is_near_tile_center
is_near_tile_center(x, y) ==
    /\ NEAR_CENTER_LIMIT < x % Milli /\ x % Milli < Milli - NEAR_CENTER_LIMIT
    /\ NEAR_CENTER_LIMIT < y % Milli /\ y % Milli < Milli - NEAR_CENTER_LIMIT

\* GameMap.tile_is_withing_map: (0, 0) <= tile <= MAP_SIZE - 1, component-wise
tile_is_withing_map(t) ==
    /\ t[1] >= 0 /\ t[2] >= 0
    /\ t[1] <= MapCols - 1 /\ t[2] <= MapRows - 1

\* Python list indexing self.tiles[row][col]: a negative index counts from the
\* end, an index outside -n..n-1 raises IndexError.
PyIdx(i, n) == IF i < 0 THEN i + n ELSE i
PyOk(i, n) == i >= -n /\ i < n
\* GameMap.get_tile raises for t
get_tile_raises(t) == ~(PyOk(t[1], MapCols) /\ PyOk(t[2], MapRows))
\* the key of the tile GameMap.get_tile returns for t
get_tile_key(t) == <<PyIdx(t[1], MapCols), PyIdx(t[2], MapRows)>>

(* ------------------------- the world record --------------------------- *)
\* The operations of the program are operators from world to world, where a
\* world holds the mutable objects of the program (and err: an exception
\* was raised, after which nothing more is executed).
World == [tiles |-> tiles, bombs |-> bombs, players |-> players, gm |-> gm,
          give |-> give, danger |-> danger, log |-> log, notified |-> notified,
          err |-> crashed]

Raise(w) == [w EXCEPT !.err = TRUE]

(* --------------------------- map queries ------------------------------ *)
bomb_tile_of(b) == position_to_tile(b.x, b.y)
player_tile_of(p) == position_to_tile(p.x, p.y)

\* GameMap.bombs_on_tile: the ids of the non-flying bombs whose tile is t, in list order
bombs_on_tile(w, t) ==
    LET F[i \in 0..Len(w.bombs)] ==
            IF i = 0 THEN <<>>
            ELSE IF w.bombs[i].movement # BOMB_FLYING /\ bomb_tile_of(w.bombs[i]) = t
                 THEN Append(F[i - 1], w.bombs[i].id)
                 ELSE F[i - 1]
    IN  F[Len(w.bombs)]

\* GameMap.tile_has_bomb (through bomb_on_tile)
tile_has_bomb(w, t) == Len(bombs_on_tile(w, t)) > 0

\* the index in GameMap.bombs of the bomb object id (0: not in the list)
bomb_index(w, id) ==
    LET S == {i \in 1..Len(w.bombs) : w.bombs[i].id = id}
    IN  IF S = {} THEN 0 ELSE CHOOSE i \in S : TRUE

\* GameMap.get_players_at_tile: indices of the players that are not dead, not in the air, on t
get_players_at_tile(w, t) ==
    {i \in 1..Len(w.players) :
        /\ w.players[i].state # STATE_DEAD
        /\ w.players[i].state # STATE_IN_AIR
        /\ player_tile_of(w.players[i]) = t}

\* GameMap.tile_has_player
tile_has_player(w, t) == Cardinality(get_players_at_tile(w, t)) > 0

\* GameMap.tile_has_flame
tile_has_flame(w, t) ==
    IF ~tile_is_withing_map(t) THEN FALSE ELSE Len(w.tiles[t].flames) >= 1

\* GameMap.tile_has_lava
tile_has_lava(w, t) ==
    IF ~tile_is_withing_map(t) THEN FALSE ELSE w.tiles[t].special_object = SPECIAL_OBJECT_LAVA

\* GameMap.tile_has_teleport
tile_has_teleport(w, t) ==
    IF ~tile_is_withing_map(t) THEN FALSE
    ELSE w.tiles[t].special_object \in {SPECIAL_OBJECT_TELEPORT_A, SPECIAL_OBJECT_TELEPORT_B}

\* a plausible slip of tile_is_walkable: a flying bomb blocks the tile too
tile_is_walkable_flying_blocks(w, t) ==
    IF ~tile_is_withing_map(t) THEN FALSE
    ELSE /\ (w.tiles[t].kind = TILE_FLOOR \/ w.tiles[t].to_be_destroyed)
         /\ ~\E i \in 1..Len(w.bombs) : bomb_tile_of(w.bombs[i]) = t

\* GameMap.tile_is_walkable
tile_is_walkable(w, t) ==
    IF ~tile_is_withing_map(t) THEN FALSE
    ELSE /\ tile_is_withing_map(t)
         /\ (w.tiles[t].kind = TILE_FLOOR \/ w.tiles[t].to_be_destroyed)
         /\ ~tile_has_bomb(w, t)

\* GameMap.get_tile_at: the key of the tile, or NoPos for None
get_tile_at(t) == IF tile_is_withing_map(t) THEN t ELSE NoPos

\* GameMap.get_position_collision_type for the float position (x, y)
get_position_collision_type(w, x, y) ==
    LET t == position_to_tile(x, y)
        wx == x % Milli
        wy == y % Milli
        vertical ==
            IF wy < WALL_MARGIN_HORIZONTAL /\ ~tile_is_walkable(w, <<t[1], t[2] - 1>>)
                THEN COLLISION_BORDER_UP
            ELSE IF ~(wy < WALL_MARGIN_HORIZONTAL) /\ wy > Milli - WALL_MARGIN_HORIZONTAL
                    /\ ~tile_is_walkable(w, <<t[1], t[2] + 1>>)
                THEN COLLISION_BORDER_DOWN
            ELSE COLLISION_NONE
        horizontal ==
            IF wx < WALL_MARGIN_VERTICAL /\ ~tile_is_walkable(w, <<t[1] - 1, t[2]>>)
                THEN COLLISION_BORDER_LEFT
            ELSE IF ~(wx < WALL_MARGIN_VERTICAL) /\ wx > Milli - WALL_MARGIN_VERTICAL
                    /\ ~tile_is_walkable(w, <<t[1] + 1, t[2]>>)
                THEN COLLISION_BORDER_RIGHT
            ELSE COLLISION_NONE
    IN  IF ~tile_is_walkable(w, t) THEN COLLISION_TOTAL
        ELSE IF vertical # COLLISION_NONE THEN vertical
        ELSE horizontal

(* ----------------------------- explosion ------------------------------ *)
\* up, right, down, left as in GameMap.bomb_explodes
DirVec(d) == CASE d = 0 -> <<0, -1>> [] d = 1 -> <<1, 0>> [] d = 2 -> <<0, 1>> [] OTHER -> <<-1, 0>>

\* Flame(): owner and time_to_burnout (the direction tag is a render hint)
NewFlame(owner) == [player |-> owner, time_to_burnout |-> FLAME_BURNOUT]

\* the map_limit test of bomb_explodes for direction d at position p
FlameInsideMap(d, p) ==
    CASE d = 0 -> p[2] >= 0
      [] d = 1 -> p[1] <= MapCols - 1
      [] d = 2 -> p[2] <= MapRows - 1
      [] OTHER -> p[1] >= 0

\* a plausible slip of FlameStopsAfter: the flame burns through blocks
FlameStopsAfter_through_blocks(kind) == FALSE

\* bomb_explodes: a flame placed on a Block tile stops the direction
FlameStopsAfter(kind) == kind = TILE_BLOCK

\* a plausible slip of FlameBlockedBy: walls take a flame like blocks do
FlameBlockedBy_nothing(kind) == FALSE

\* bomb_explodes: a Wall tile stops the direction and takes no flame
FlameBlockedBy(kind) == kind = TILE_WALL

\* The spreading loop of GameMap.bomb_explodes: step k is distance k \div 4 + 1
\* in direction k % 4; stop is flame_stop.
RECURSIVE SpreadFlames(_, _, _, _, _, _)
SpreadFlames(ts, stop, bt, n, owner, k) ==
    IF k >= 4 * n THEN ts
    ELSE LET d == k % 4
             p == <<bt[1] + DirVec(d)[1] * ((k \div 4) + 1), bt[2] + DirVec(d)[2] * ((k \div 4) + 1)>>
             key == get_tile_key(p)
         IN  IF stop[d + 1] THEN SpreadFlames(ts, stop, bt, n, owner, k + 1)
             ELSE IF ~FlameInsideMap(d, p)
                 THEN SpreadFlames(ts, [stop EXCEPT ![d + 1] = TRUE], bt, n, owner, k + 1)
             ELSE IF FlameBlockedBy(ts[key].kind)
                 THEN SpreadFlames(ts, [stop EXCEPT ![d + 1] = TRUE], bt, n, owner, k + 1)
             ELSE SpreadFlames([ts EXCEPT ![key].flames = Append(@, NewFlame(owner))],
                               [stop EXCEPT ![d + 1] = FlameStopsAfter(ts[key].kind)],
                               bt, n, owner, k + 1)

\* a plausible slip of Bomb.explodes: the has_exploded guard inverted
BombNotifies_inverted(already_exploded) == already_exploded

\* Bomb.explodes: the has_exploded guard of the owner's notification
BombNotifies(already_exploded) == ~already_exploded

\* GameMap.bomb_explodes for the Bomb object b (cause: which code path called it)
bomb_explodes(w, b, cause) ==
    LET bt == bomb_tile_of(b)
        i == bomb_index(w, b.id)
        w1 == [w EXCEPT !.tiles[get_tile_key(bt)].flames = Append(@, NewFlame(b.player))]
        ts == SpreadFlames(w1.tiles, <<FALSE, FALSE, FALSE, FALSE>>, bt, b.flame_length, b.player, 0)
        told == BombNotifies(w.notified[b.id] > 0)
    IN  IF w.err THEN w
        ELSE IF get_tile_raises(bt) THEN Raise(w)
        ELSE [w EXCEPT
                !.tiles = ts,
                !.players[b.player].bombs_left = IF told THEN @ + 1 ELSE @,
                !.notified[b.id] = IF told THEN @ + 1 ELSE @,
                !.bombs = IF i = 0 THEN @ ELSE RemoveAt(@, i),
                !.log = Append(@, [id |-> b.id, cause |-> cause, toe |-> b.time_of_existence,
                                   movement |-> b.movement, tile |-> bt,
                                   at |-> w.gm.time_from_start, fuse |-> b.explodes_in + b.detonator_time,
                                   flame_length |-> b.flame_length,
                                   gained |-> {p \in Pos : Len(ts[p].flames) > Len(w.tiles[p].flames)},
                                   kinds |-> [p \in Pos |-> w.tiles[p].kind]])]

(* ------------------------------- bombs -------------------------------- *)
\* Bomb.send_flying
send_flying(b, dest) ==
    LET ct == bomb_tile_of(b)
        axis == IF ct[1] = dest[1] THEN 2 ELSE 1
    IN  [b EXCEPT
            !.movement = BOMB_FLYING,
            !.distance_travelled = 0,
            !.total_distance_to_travel = Abs(ct[axis] - dest[axis]),
            !.direction = [k \in 1..2 |-> IF k # axis THEN 0
                                          ELSE IF ct[axis] > dest[axis] THEN -1 ELSE 1],
            !.x = (dest[1] % MapCols) * Milli + 500,
            !.y = (dest[2] % MapRows) * Milli + 500]

\* Bomb.has_detonator
has_detonator(b) == b.detonator_time > 0 /\ b.time_of_existence < DETONATOR_EXPIRATION_TIME

\* Bomb.time_until_explosion
time_until_explosion(b) == b.explodes_in + b.detonator_time - b.time_of_existence

\* a plausible slip of FuseExpired: >= for >
FuseExpired_inclusive(b) == b.time_of_existence >= b.explodes_in + b.detonator_time

\* __update_bombs: the fuse test
FuseExpired(b) == b.time_of_existence > b.explodes_in + b.detonator_time

\* a plausible slip of Rebounds: the bomb is sent on from every tile
Rebounds_always(w, bt) == TRUE

\* __update_bombs: the test that sends a bomb at the end of its flight on
\* to the next tile instead of landing it on the tile bt
Rebounds(w, bt) ==
    ~(tile_is_walkable(w, bt) \/ tile_has_player(w, bt) \/ tile_has_teleport(w, bt))

\* __update_bombs, the flying branch, for the bomb at index i
FlyBomb(w, i, dt) ==
    LET b == w.bombs[i]
        travelled == b.distance_travelled + dt * FLYING_SPEED
        b1 == [b EXCEPT !.distance_travelled = travelled]
        w1 == [w EXCEPT !.bombs[i] = b1]
        bt == bomb_tile_of(b1)
    IN  IF travelled >= b.total_distance_to_travel * Milli
        THEN IF Rebounds(w1, bt)
             THEN [w1 EXCEPT !.bombs[i] = send_flying(b1, <<bt[1] + b1.direction[1], bt[2] + b1.direction[2]>>)]
             ELSE IF get_tile_at(bt) = NoPos THEN Raise(w1)
             ELSE [w1 EXCEPT !.bombs[i].movement = BOMB_NO_MOVEMENT,
                             !.tiles[bt].item = NoObject]
        ELSE w1

\* the arrow redirection of a rolling bomb near its tile's centre:
\* <<movement, x, y>> after it
ArrowRedirect(b, object_at_tile) ==
    LET bt == bomb_tile_of(b)
    IN  IF object_at_tile = SPECIAL_OBJECT_ARROW_UP /\ b.movement # BOMB_ROLLING_UP
            THEN <<BOMB_ROLLING_UP, bt[1] * Milli + 500, bt[2] * Milli>>
        ELSE IF object_at_tile = SPECIAL_OBJECT_ARROW_RIGHT /\ b.movement # BOMB_ROLLING_RIGHT
            THEN <<BOMB_ROLLING_RIGHT, b.x, bt[2] * Milli + 500>>
        ELSE IF object_at_tile = SPECIAL_OBJECT_ARROW_DOWN /\ b.movement # BOMB_ROLLING_DOWN
            THEN <<BOMB_ROLLING_DOWN, bt[1] * Milli + 500, b.y>>
        ELSE IF object_at_tile = SPECIAL_OBJECT_ARROW_LEFT /\ b.movement # BOMB_ROLLING_LEFT
            THEN <<BOMB_ROLLING_LEFT, b.x, bt[2] * Milli + 500>>
        ELSE <<b.movement, b.x, b.y>>

\* the position a rolling bomb is set to: movement m, from (x, y), by dist.
\* For BOMB_ROLLING_UP the source passes Coordinate(row, col - distance).
RollTo(m, x, y, dist) ==
    CASE m = BOMB_ROLLING_UP -> <<y, x - dist>>
      [] m = BOMB_ROLLING_RIGHT -> <<x + dist, y>>
      [] m = BOMB_ROLLING_DOWN -> <<x, y + dist>>
      [] OTHER -> <<x - dist, y>>

\* helper_boundaries / helper_boundaries2: whether the collision of a rolling
\* bomb is checked, from its position within the tile before the move
RollChecksCollision(m, wx, wy) ==
    CASE m = BOMB_ROLLING_UP -> 100 < wy /\ wy < 500
      [] m = BOMB_ROLLING_RIGHT -> 500 < wx /\ wx < 900
      [] m = BOMB_ROLLING_DOWN -> 500 < wy /\ wy < 900
      [] OTHER -> 100 < wx /\ wx < 500

OppositeRolling(m) ==
    CASE m = BOMB_ROLLING_UP -> BOMB_ROLLING_DOWN
      [] m = BOMB_ROLLING_RIGHT -> BOMB_ROLLING_LEFT
      [] m = BOMB_ROLLING_DOWN -> BOMB_ROLLING_UP
      [] OTHER -> BOMB_ROLLING_RIGHT

\* __update_bombs, the rolling branch after the arrow redirection red of the
\* bomb at index i, whose tile is bt
RollRedirected(w, i, dt, bt, red) ==
    LET m == red[1]
        to == RollTo(m, red[2], red[3], dt * ROLLING_SPEED)
        check == RollChecksCollision(m, red[2] % Milli, red[3] % Milli)
        forward_tile == <<bt[1] + DirVec(m)[1], bt[2] + DirVec(m)[2]>>
        \* the item is destroyed, then the bomb is set to its new position
        w1 == [w EXCEPT !.tiles[get_tile_key(bt)].item = NoObject,
                        !.bombs[i].movement = m,
                        !.bombs[i].x = to[1],
                        !.bombs[i].y = to[2]]
        c == center_of(to[1], to[2])
    IN  IF check /\ (\/ ~tile_is_walkable(w1, forward_tile)
                     \/ tile_has_player(w1, forward_tile)
                     \/ tile_has_teleport(w1, forward_tile))
        THEN [w1 EXCEPT !.bombs[i].x = c[1],
                        !.bombs[i].y = c[2],
                        !.bombs[i].movement = IF w.bombs[i].has_spring THEN OppositeRolling(m)
                                              ELSE BOMB_NO_MOVEMENT]
        ELSE w1

\* __update_bombs, the rolling branch, for the bomb at index i
RollBomb(w, i, dt) ==
    LET b == w.bombs[i]
        bt == bomb_tile_of(b)
    IN  IF get_tile_raises(bt) THEN Raise(w)
        ELSE RollRedirected(w, i, dt, bt,
                IF is_near_tile_center(b.x, b.y)
                THEN ArrowRedirect(b, w.tiles[get_tile_key(bt)].special_object)
                ELSE <<b.movement, b.x, b.y>>)

\* a plausible slip of NotFlying: the movement is not looked at
NotFlying_unchecked(b) == TRUE

\* __update_bombs: bomb.movement != Bomb.BOMB_FLYING, the first test of both
\* explosion branches
NotFlying(b) == b.movement # BOMB_FLYING

\* GameMap.__update_bombs: the while loop from index i on
RECURSIVE update_bombs(_, _, _)
update_bombs(w, i, dt) ==
    IF w.err \/ i > Len(w.bombs) THEN w
    ELSE LET b == [w.bombs[i] EXCEPT !.time_of_existence = @ + dt]
             w1 == [w EXCEPT !.bombs[i] = b]
             bt == bomb_tile_of(b)
         IN  IF NotFlying(b) /\ FuseExpired(b)
                 THEN update_bombs(bomb_explodes(w1, b, "fuse"), i, dt)
             ELSE IF NotFlying(b) /\ get_tile_raises(bt)
                 THEN Raise(w1)
             ELSE IF NotFlying(b)
                     /\ w1.tiles[get_tile_key(bt)].special_object = SPECIAL_OBJECT_LAVA
                     /\ is_near_tile_center(b.x, b.y)
                 THEN update_bombs(bomb_explodes(w1, b, "lava"), i, dt)
             ELSE IF b.movement = BOMB_NO_MOVEMENT THEN update_bombs(w1, i + 1, dt)
             ELSE IF b.movement = BOMB_FLYING THEN update_bombs(FlyBomb(w1, i, dt), i + 1, dt)
             ELSE update_bombs(RollBomb(w1, i, dt), i + 1, dt)

(* ------------------------ items and give-aways ------------------------ *)
\* The outcomes of the calls of random.choice in one simulation step are an
\* input rnd of the step:
\*   rnd.rank     a sequence of tile keys: random.choice over tiles takes the
\*                first eligible tile in this order
\*   rnd.roll     the item an ITEM_RANDOM turns into
\*   rnd.disease  the disease an ITEM_DISEASE brings
\*   rnd.other    which of the other living players DISEASE_SWITCH_PLAYERS takes

\* the first n tiles of rank (from index j on) that are in the set S
RECURSIVE FirstEligible(_, _, _, _)
FirstEligible(rank, S, n, j) ==
    IF n = 0 \/ j > Len(rank) THEN <<>>
    ELSE IF rank[j] \in S THEN <<rank[j]>> \o FirstEligible(rank, S \ {rank[j]}, n - 1, j + 1)
    ELSE FirstEligible(rank, S, n, j + 1)

\* GameMap.spread_items: possible_tiles
PossibleTiles(w) ==
    {p \in Pos : /\ w.tiles[p].kind = TILE_FLOOR
                 /\ w.tiles[p].special_object = NoObject
                 /\ w.tiles[p].item = NoObject
                 /\ ~tile_has_player(w, p)}

\* GameMap.spread_items
spread_items(w, items, rnd) ==
    LET chosen == FirstEligible(rnd.rank, PossibleTiles(w), Len(items), 1)
    IN  [w EXCEPT !.tiles = [p \in Pos |->
            IF \E j \in 1..Len(chosen) : chosen[j] = p
            THEN [w.tiles[p] EXCEPT !.item = items[CHOOSE j \in 1..Len(chosen) : chosen[j] = p]]
            ELSE w.tiles[p]]]

\* GameMap.update: the loop over items_to_give_away (the index advances also
\* after a removal)
RECURSIVE give_away_loop(_, _, _)
give_away_loop(w, i, rnd) ==
    IF i > Len(w.give) THEN w
    ELSE IF w.gm.time_from_start >= w.give[i].at
         THEN give_away_loop([spread_items(w, w.give[i].items, rnd) EXCEPT !.give = RemoveAt(w.give, i)],
                             i + 1, rnd)
         ELSE give_away_loop(w, i + 1, rnd)

\* pygame.time.get_ticks(): the wall clock, ahead of the map clock by the
\* time spent outside the simulation
get_ticks(w) == w.gm.time_from_start + w.gm.wall_offset

\* Player.get_items: every item code, repeated by its count, in dict order
RECURSIVE get_items(_)
get_items(items) ==
    IF Len(items) = 0 THEN <<>>
    ELSE [k \in 1..items[1].amount |-> items[1].item] \o get_items(Tail(items))

\* GameMap.give_away_items (since: the map time of the call, kept for the
\* properties only)
give_away_items(w, items) ==
    [w EXCEPT !.give = Append(@, [at |-> get_ticks(w) + GIVE_AWAY_DELAY, items |-> items,
                                  since |-> w.gm.time_from_start])]

\* Player.kill for the player at index pi
kill(w, pi) ==
    give_away_items([w EXCEPT !.players[pi].state = STATE_DEAD], get_items(w.players[pi].items))

\* self.items[item] = 1 if item not in self.items else self.items[item] + 1
AddItem(items, item) ==
    IF \E k \in 1..Len(items) : items[k].item = item
    THEN [k \in 1..Len(items) |-> IF items[k].item = item
                                  THEN [items[k] EXCEPT !.amount = @ + 1] ELSE items[k]]
    ELSE Append(items, [item |-> item, amount |-> 1])

\* the living players other than pi, in list order
OtherLiving(w, pi) ==
    LET F[i \in 0..Len(w.players)] ==
            IF i = 0 THEN <<>>
            ELSE IF i # pi /\ w.players[i].state # STATE_DEAD THEN Append(F[i - 1], i)
            ELSE F[i - 1]
    IN  F[Len(w.players)]

\* Player.give_item with a game map
give_item(w, pi, got, rnd) ==
    LET w1 == [w EXCEPT !.players[pi].items = AddItem(@, got)]
        item == IF got = ITEM_RANDOM THEN rnd.roll ELSE got
        others == OtherLiving(w, pi)
        other == IF Len(others) = 0 THEN pi ELSE others[(rnd.other % Len(others)) + 1]
    IN  CASE item = ITEM_BOMB -> [w1 EXCEPT !.players[pi].bombs_left = @ + 1]
          [] item = ITEM_FLAME -> [w1 EXCEPT !.players[pi].flame_length = @ + 1]
          [] item = ITEM_SUPERFLAME -> [w1 EXCEPT !.players[pi].flame_length = Max(MapCols, MapRows)]
          [] item = ITEM_MULTIBOMB -> [w1 EXCEPT !.players[pi].has_multibomb = TRUE]
          [] item = ITEM_DETONATOR -> [w1 EXCEPT !.players[pi].detonator_bombs_left = 3]
          [] item = ITEM_SPRING -> [w1 EXCEPT !.players[pi].has_spring = TRUE]
          [] item = ITEM_SPEEDUP -> [w1 EXCEPT !.players[pi].speed = Min(@ + SPEEDUP_VALUE, MAX_SPEED)]
          [] item = ITEM_SHOE -> [w1 EXCEPT !.players[pi].has_shoe = TRUE]
          [] item = ITEM_BOXING_GLOVE -> [w1 EXCEPT !.players[pi].has_boxing_glove = TRUE]
          [] item = ITEM_THROWING_GLOVE -> [w1 EXCEPT !.players[pi].has_throwing_glove = TRUE]
          [] item = ITEM_DISEASE ->
                IF rnd.disease = DISEASE_SWITCH_PLAYERS
                THEN [w1 EXCEPT !.players[pi].x = w.players[other].x,
                                !.players[pi].y = w.players[other].y,
                                !.players[other].x = w.players[pi].x,
                                !.players[other].y = w.players[pi].y]
                ELSE IF rnd.disease = DISEASE_EARTHQUAKE
                THEN [w1 EXCEPT !.gm.earthquake_time_left = EARTHQUAKE_DURATION]
                ELSE [w1 EXCEPT !.players[pi].disease = rnd.disease,
                                !.players[pi].disease_time_left = DISEASE_TIME]
          [] OTHER -> w1

(* ----------------------- GameMap.update: tiles ------------------------- *)
\* for bomb in bombs_inside_flame: self.bomb_explodes(bomb)
RECURSIVE explode_all(_, _, _)
explode_all(w, ids, j) ==
    IF w.err \/ j > Len(ids) THEN w
    ELSE explode_all(bomb_explodes(w, w.bombs[bomb_index(w, ids[j])], "flame"), ids, j + 1)

\* a plausible slip of FlameMarksBlock: the flame leaves blocks alone
FlameMarksBlock_never(kind) == FALSE

\* update: a flame on a Block tile marks it to be destroyed
FlameMarksBlock(kind) == kind = TILE_BLOCK

\* The while loop over tile.flames of the tile at key, from index i (1-based);
\* the index advances also after a burnt-out flame was removed.
RECURSIVE flame_loop(_, _, _, _)
\* the end of the loop body: the flame at index i of the tile at key burns
\* for dt and is removed when burnt out, and the loop goes on
flame_burns(w, key, i, dt) ==
    LET left == w.tiles[key].flames[i].time_to_burnout - dt
    IN  IF w.err THEN w
        ELSE flame_loop(IF left < 0
                        THEN [w EXCEPT !.tiles[key].flames = RemoveAt(@, i)]
                        ELSE [w EXCEPT !.tiles[key].flames[i].time_to_burnout = left],
                        key, i + 1, dt)

flame_loop(w, key, i, dt) ==
    IF w.err \/ i > Len(w.tiles[key].flames) THEN w
    ELSE LET t == w.tiles[key]
             w1 == IF FlameMarksBlock(t.kind) THEN [w EXCEPT !.tiles[key].to_be_destroyed = TRUE]
                   ELSE IF t.kind = TILE_FLOOR /\ t.item # NoObject
                        THEN [w EXCEPT !.tiles[key].item = NoObject]
                   ELSE w
         IN  flame_burns(explode_all(w1, bombs_on_tile(w1, key), 1), key, i, dt)

\* a plausible slip of BlockFalls: the block falls while it still burns
BlockFalls_while_burning(t, burning) == t.to_be_destroyed /\ t.kind = TILE_BLOCK

\* update: a marked Block tile without flames becomes Floor
BlockFalls(t, burning) == t.to_be_destroyed /\ t.kind = TILE_BLOCK /\ ~burning

\* a plausible slip of BlocksAfterFall: the count is not kept
BlocksAfterFall_unchanged(number_of_blocks) == number_of_blocks

\* update: self.number_of_blocks -= 1 for the Block that became Floor
BlocksAfterFall(number_of_blocks) == number_of_blocks - 1

\* for line in self.tiles: for tile in line: the tile with row-major number k
RECURSIVE tile_loop(_, _, _)
tile_loop(w, k, dt) ==
    IF w.err \/ k >= MapCols * MapRows THEN w
    ELSE LET key == <<k % MapCols, k \div MapCols>>
             w1 == IF BlockFalls(w.tiles[key], tile_has_flame(w, key))
                   THEN [w EXCEPT !.tiles[key].kind = TILE_FLOOR,
                                  !.tiles[key].to_be_destroyed = FALSE,
                                  !.gm.number_of_blocks = BlocksAfterFall(@)]
                   ELSE w
         IN  tile_loop(flame_loop(w1, key, 1, dt), k + 1, dt)

(* ---------------------- GameMap.update: players ------------------------ *)
\* a plausible slip of increase_kills_by: a self kill counts as a kill
increase_kills_by_always_one(owner, pi) == 1

\* __update_players: a self kill decreases the kill count
increase_kills_by(owner, pi) == IF owner # pi THEN 1 ELSE -1

\* the flame owners' kill counts when the player at index pi burns on tile key
RECURSIVE assign_kills(_, _, _, _)
assign_kills(w, pi, flames, j) ==
    IF j > Len(flames) THEN w
    ELSE assign_kills([w EXCEPT !.players[flames[j].player].kills =
                                    @ + increase_kills_by(flames[j].player, pi)],
                      pi, flames, j + 1)

\* Player.send_to_air: the potential landing tiles
LandingTiles(w, from) ==
    {t \in Pos : /\ t[1] >= from[1] - 3 /\ t[1] <= from[1] + 3
                 /\ t[2] >= from[2] - 3 /\ t[2] <= from[2] + 3
                 /\ tile_is_walkable(w, t)
                 /\ w.tiles[t].special_object = NoObject}

\* Player.send_to_air
send_to_air(w, pi, rnd) ==
    LET pl == w.players[pi]
        from == player_tile_of(pl)
        landing == FirstEligible(rnd.rank, LandingTiles(w, from), 1, 1)
    IN  IF pl.state = STATE_IN_AIR THEN w
        ELSE [w EXCEPT !.players[pi].state_backup = pl.state,
                       !.players[pi].state = STATE_IN_AIR,
                       !.players[pi].jumping_to =
                            IF LandingTiles(w, from) = {} \/ Len(landing) = 0
                            THEN <<from[1], from[2] + 1>> ELSE landing[1],
                       !.players[pi].state_time = 0]

\* a plausible slip of AwaitsTransition: the flag is not looked at
AwaitsTransition_never(pl) == FALSE

\* Player.teleport: the test of its first return
AwaitsTransition(pl) == pl.wait_for_tile_transition

\* Player.teleport
teleport(w, pi) ==
    LET pl == w.players[pi]
        current_tile == player_tile_of(pl)
        dest == w.tiles[current_tile].destination_teleport
    IN  IF AwaitsTransition(pl) THEN w
        ELSE IF get_tile_at(current_tile) = NoPos THEN Raise(w)
        ELSE IF dest = NoPos THEN w
        ELSE [w EXCEPT !.players[pi].x = center_of(pl.x, pl.y)[1],
                       !.players[pi].y = center_of(pl.x, pl.y)[2],
                       !.players[pi].teleporting_to = dest,
                       !.players[pi].state_backup = pl.state,
                       !.players[pi].state = STATE_TELEPORTING,
                       !.players[pi].state_time = 0,
                       !.players[pi].wait_for_tile_transition = TRUE]

\* Positionable.move_to_tile_center(tile) for the player at index pi
move_player_to(w, pi, t) ==
    [w EXCEPT !.players[pi].x = t[1] * Milli + 500, !.players[pi].y = t[2] * Milli + 500]

\* the disease of the player at index pi passes to the healthy players on tile t
transmit_disease(w, pi, t) ==
    [w EXCEPT !.players = [q \in 1..Len(w.players) |->
        IF q \in get_players_at_tile(w, t) /\ w.players[q].disease = DISEASE_NONE
        THEN [w.players[q] EXCEPT !.disease = w.players[pi].disease,
                                  !.disease_time_left = w.players[pi].disease_time_left]
        ELSE w.players[q]]]

\* player.get_state != Player.STATE_TELEPORTING compares the bound method with
\* a number, which is never equal
NotTeleportingTest(pl) == TRUE

\* a plausible slip of BurnsPlayer: a player in the air burns too
BurnsPlayer_in_air(w, pl, key) ==
    NotTeleportingTest(pl) /\ (tile_has_flame(w, key) \/ tile_has_lava(w, key))

\* __update_players: the death test of a living player whose tile is key
BurnsPlayer(w, pl, key) ==
    /\ pl.state # STATE_IN_AIR
    /\ NotTeleportingTest(pl)
    /\ (tile_has_flame(w, key) \/ tile_has_lava(w, key))

\* the loop body of __update_players after the item of the player's tile
\* (at key) was taken
player_special_effects(w1, pi, key, rnd) ==
    LET pl == w1.players[pi]
        special == w1.tiles[key].special_object
    IN  IF pl.state = STATE_IN_AIR
            THEN IF 2 * pl.state_time > JUMP_DURATION
                 THEN move_player_to(w1, pi, pl.jumping_to) ELSE w1
        ELSE IF pl.state = STATE_TELEPORTING
            THEN IF 2 * pl.state_time > TELEPORT_DURATION
                 THEN move_player_to(w1, pi, pl.teleporting_to) ELSE w1
        ELSE IF special = SPECIAL_OBJECT_TRAMPOLINE /\ is_near_tile_center(pl.x, pl.y)
            THEN send_to_air(w1, pi, rnd)
        ELSE IF special \in {SPECIAL_OBJECT_TELEPORT_A, SPECIAL_OBJECT_TELEPORT_B}
                /\ is_near_tile_center(pl.x, pl.y)
            THEN teleport(w1, pi)
        ELSE IF pl.disease # DISEASE_NONE
            THEN transmit_disease(w1, pi, player_tile_of(pl))
        ELSE w1

\* the part of the loop body of __update_players after the death test
player_tile_effects(w, pi, rnd) ==
    LET key == get_tile_key(player_tile_of(w.players[pi]))
    IN  player_special_effects(
            IF w.tiles[key].item # NoObject
            THEN [give_item(w, pi, w.tiles[key].item, rnd) EXCEPT !.tiles[key].item = NoObject]
            ELSE w,
            pi, key, rnd)

\* GameMap.__update_players: the loop over self.players from index pi
RECURSIVE update_players(_, _, _, _)
update_players(w, pi, immortal, rnd) ==
    IF w.err \/ pi > Len(w.players) THEN w
    ELSE IF w.players[pi].state = STATE_DEAD THEN update_players(w, pi + 1, immortal, rnd)
    ELSE LET pl == w.players[pi]
             w1 == IF w.gm.winning_color = -1
                   THEN [w EXCEPT !.gm.winning_color = pl.team_number]
                   ELSE IF w.gm.winning_color # pl.team_number
                        THEN [w EXCEPT !.gm.game_is_over = FALSE]
                   ELSE w
             pt == player_tile_of(pl)
             key == get_tile_key(pt)
         IN  IF get_tile_raises(pt) THEN Raise(w1)
             ELSE IF BurnsPlayer(w1, pl, key) /\ pl.number \notin immortal
                 THEN update_players(kill(assign_kills(w1, pi, w1.tiles[key].flames, 1), pi),
                                     pi + 1, immortal, rnd)
             ELSE update_players(player_tile_effects(w1, pi, rnd), pi + 1, immortal, rnd)

(* --------------------- GameMap.update: round state --------------------- *)
\* a plausible slip of RoundIsDecided: the round ends only when nobody lives
RoundIsDecided_nobody_left(g) == g.game_is_over /\ g.winning_color = -1

\* update: the test that takes the round to Finishing
RoundIsDecided(g) == g.game_is_over

\* a plausible slip of EndGameAt: the round is over as soon as the win is announced
EndGameAt_at_announcement(t) == t + ANNOUNCE_WIN_DELAY

\* update: self.end_game_at = self.time_from_start + 5000
EndGameAt(t) == t + END_GAME_DELAY

\* a plausible slip of AnnounceDue: the announcement is repeated
AnnounceDue_repeated(g) == g.time_from_start >= g.announce_win_at

\* update: the win is announced when due and not yet announced
AnnounceDue(g) == ~g.win_announced /\ g.time_from_start >= g.announce_win_at

\* The tail of GameMap.update after __update_players, on the map's own fields
\* g; win_sounds counts the SOUND_EVENT_WIN_0 + winner_team sound events.
round_state(g) ==
    LET g1 == IF g.state = STATE_WAITING_TO_PLAY /\ g.time_from_start >= g.start_game_at
              THEN [g EXCEPT !.state = STATE_PLAYING] ELSE g
    IN  IF g1.state = STATE_FINISHING
        THEN IF g1.time_from_start >= g1.end_game_at
             THEN [g1 EXCEPT !.state = STATE_GAME_OVER]
             ELSE IF AnnounceDue(g1)
                  THEN [g1 EXCEPT !.win_announced = TRUE, !.win_sounds = @ + 1]
                  ELSE g1
        ELSE IF g1.state # STATE_GAME_OVER /\ RoundIsDecided(g1)
        THEN [g1 EXCEPT !.end_game_at = EndGameAt(g1.time_from_start),
                        !.state = STATE_FINISHING,
                        !.winner_team = g1.winning_color,
                        !.announce_win_at = g1.time_from_start + ANNOUNCE_WIN_DELAY]
        ELSE g1

\* history of the round state: finishing_since is the map time of the update
\* that took the state g.state to Finishing
EnteredFinishing(g, g2) ==
    IF g.state # STATE_FINISHING /\ g2.state = STATE_FINISHING
    THEN [g2 EXCEPT !.finishing_since = g2.time_from_start]
    ELSE g2

\* GameMap.update after __update_players: the round state
update_round(w5) ==
    IF w5.err THEN w5
    ELSE [w5 EXCEPT !.gm = EnteredFinishing(w5.gm, round_state(w5.gm))]

\* GameMap.update after the loop over the tiles: the players
update_after_tiles(w3, immortal, rnd) ==
    IF w3.err THEN w3
    ELSE update_round(update_players([w3 EXCEPT !.gm.game_is_over = TRUE, !.gm.winning_color = -1],
                                     1, immortal, rnd))

\* GameMap.update(dt, immortal_player_numbers)
update(w, dt, immortal, rnd) ==
    LET w0 == [w EXCEPT !.gm.time_from_start = @ + dt,
                        !.gm.earthquake_time_left = Max(0, @ - dt),
                        !.danger.up_to_date = FALSE,
                        !.danger.rebuilds = 0]
        w1 == give_away_loop(w0, 1, rnd)
        w2 == update_bombs(w1, 1, dt)
    IN  update_after_tiles(tile_loop(w2, 0, dt), immortal, rnd)

(* ------------------------------ Player ------------------------------- *)
\* Player.get_direction_vector
get_direction_vector(pl) ==
    CASE pl.state \in {STATE_WALKING_UP, STATE_IDLE_UP} -> <<0, -1>>
      [] pl.state \in {STATE_WALKING_RIGHT, STATE_IDLE_RIGHT} -> <<1, 0>>
      [] pl.state \in {STATE_WALKING_DOWN, STATE_IDLE_DOWN} -> <<0, 1>>
      [] OTHER -> <<-1, 0>>

\* Player.get_forward_tile_position
get_forward_tile_position(pl) ==
    <<player_tile_of(pl)[1] + get_direction_vector(pl)[1],
      player_tile_of(pl)[2] + get_direction_vector(pl)[2]>>

\* PlayerKeyMaps.get_opposite_action
get_opposite_action(a) ==
    CASE a = ACTION_UP -> ACTION_DOWN
      [] a = ACTION_RIGHT -> ACTION_LEFT
      [] a = ACTION_DOWN -> ACTION_UP
      [] a = ACTION_LEFT -> ACTION_RIGHT
      [] OTHER -> a

\* Bomb(player), as Player.lay_bomb finishes it; at is the tile given to
\* lay_bomb, NoPos for none
NewBomb(w, pi, at) ==
    LET pl == w.players[pi]
        c == IF at = NoPos THEN center_of(pl.x, pl.y)
             ELSE <<at[1] * Milli + 500, at[2] * Milli + 500>>
    IN  [id |-> Len(w.notified) + 1,
         x |-> c[1], y |-> c[2],
         player |-> pi,
         flame_length |-> IF pl.disease = DISEASE_SHORT_FLAME THEN 1 ELSE pl.flame_length,
         time_of_existence |-> 0,
         explodes_in |-> IF pl.disease = DISEASE_FAST_BOMB THEN EXPLODES_IN_QUICK ELSE BOMB_EXPLODES_IN,
         detonator_time |-> IF pl.detonator_bombs_left > 0 THEN DETONATOR_EXPIRATION_TIME ELSE 0,
         has_spring |-> pl.has_spring,
         movement |-> BOMB_NO_MOVEMENT,
         total_distance_to_travel |-> 0,
         distance_travelled |-> 0,
         direction |-> <<0, 0>>]

\* Player.lay_bomb
lay_bomb(w, pi, at) ==
    LET pl == w.players[pi]
        b == NewBomb(w, pi, at)
    IN  [w EXCEPT !.bombs = Append(@, b),
                  !.notified = Append(@, 0),
                  !.players[pi].bombs_left = @ - 1,
                  !.players[pi].detonator_bombs =
                        IF pl.detonator_bombs_left > 0 THEN Append(@, b.id) ELSE @,
                  !.players[pi].detonator_bombs_left =
                        IF pl.detonator_bombs_left > 0 THEN @ - 1 ELSE @]

\* The detonator loop of __manage_input_actions: pops the player's detonator
\* bombs until one can be detonated.
RECURSIVE detonate(_, _)
detonate(w, pi) ==
    LET ds == w.players[pi].detonator_bombs
        id == ds[Len(ds)]
        w1 == [w EXCEPT !.players[pi].detonator_bombs = SubSeq(ds, 1, Len(ds) - 1)]
        i == bomb_index(w1, id)
    IN  IF Len(ds) = 0 THEN [w |-> w, triggered |-> FALSE]
        ELSE IF i # 0 /\ has_detonator(w1.bombs[i]) /\ w1.notified[id] = 0
                /\ w1.bombs[i].movement # BOMB_FLYING
            THEN [w |-> [bomb_explodes(w1, w1.bombs[i], "detonator")
                            EXCEPT !.players[pi].wait_for_special_release = TRUE],
                  triggered |-> TRUE]
        ELSE detonate(w1, pi)

\* the player's position after a movement action a over dist
MoveBy(pl, a, dist) ==
    CASE a = ACTION_UP -> [pl EXCEPT !.y = @ - dist, !.state = STATE_WALKING_UP]
      [] a = ACTION_DOWN -> [pl EXCEPT !.y = @ + dist, !.state = STATE_WALKING_DOWN]
      [] a = ACTION_RIGHT -> [pl EXCEPT !.x = @ + dist, !.state = STATE_WALKING_RIGHT]
      [] a = ACTION_LEFT -> [pl EXCEPT !.x = @ - dist, !.state = STATE_WALKING_LEFT]
      [] OTHER -> pl

\* a plausible slip of NoBombUnder: the player's tile is not looked at
NoBombUnder_unchecked(w, pl) == TRUE

\* not game_map.tile_has_bomb(...) of the player's own tile, asked when the
\* Bomb action is read and again before the bomb is laid
NoBombUnder(w, pl) == ~tile_has_bomb(w, player_tile_of(pl))

\* a plausible slip of MayPutBomb: the bomb limit is not looked at
MayPutBomb_without_limit(w, pl) ==
    /\ ~pl.wait_for_bomb_release
    /\ NoBombUnder(w, pl)
    /\ pl.disease # DISEASE_NO_BOMB

\* __manage_input_actions: the test that sets putting_bomb
MayPutBomb(w, pl) ==
    /\ ~pl.wait_for_bomb_release
    /\ pl.bombs_left >= 1
    /\ NoBombUnder(w, pl)
    /\ pl.disease # DISEASE_NO_BOMB

\* Player.__manage_input_actions: the loop over the player's own actions acts
\* from index j; fl holds the locals and the per-step flags of the player.
\* a plausible slip of SpecialHeld: the release of the key is not waited for
SpecialHeld_never(pl) == FALSE

\* __manage_input_actions: if not self.wait_for_special_release, negated
SpecialHeld(pl) == pl.wait_for_special_release

RECURSIVE manage_input_actions(_, _, _, _, _, _)
\* the ACTION_SPECIAL branch after the detonator loop returned det: a player
\* that fired no detonator bomb in this step boxes if it has the glove
special_pressed(det, pi, acts, j, dist, fl1) ==
    manage_input_actions(
        IF ~(fl1.detonated \/ det.triggered) /\ det.w.players[pi].has_boxing_glove
        THEN [det.w EXCEPT !.players[pi].boxing = TRUE] ELSE det.w,
        pi, acts, j + 1, dist,
        [fl1 EXCEPT !.special = TRUE, !.detonated = @ \/ det.triggered])

manage_input_actions(w, pi, acts, j, dist, fl) ==
    IF w.err THEN [w |-> w, fl |-> fl]
    ELSE IF j > Len(acts)
    THEN [w |-> [w EXCEPT !.players[pi].wait_for_special_release = IF fl.special THEN @ ELSE FALSE,
                          !.players[pi].wait_for_bomb_release = IF fl.bomb THEN @ ELSE FALSE],
          fl |-> fl]
    ELSE LET pl0 == w.players[pi]
             a == IF pl0.disease = DISEASE_REVERSE_CONTROLS THEN get_opposite_action(acts[j]) ELSE acts[j]
             moves == ~fl.moved /\ a \in {ACTION_UP, ACTION_DOWN, ACTION_RIGHT, ACTION_LEFT}
             w1 == IF moves THEN [w EXCEPT !.players[pi] = MoveBy(pl0, a, dist)] ELSE w
             pl == w1.players[pi]
             fl1 == [fl EXCEPT !.moved = @ \/ moves]
         IN  IF a = ACTION_BOMB
                 THEN manage_input_actions(w1, pi, acts, j + 1, dist,
                        [fl1 EXCEPT !.bomb = TRUE, !.putting_bomb = @ \/ MayPutBomb(w1, pl)])
             ELSE IF a = ACTION_BOMB_DOUBLE
                 THEN manage_input_actions(w1, pi, acts, j + 1, dist,
                        IF pl.has_throwing_glove THEN [fl1 EXCEPT !.throwing = TRUE]
                        ELSE IF pl.has_multibomb THEN [fl1 EXCEPT !.putting_multibomb = TRUE]
                        ELSE fl1)
             ELSE IF a = ACTION_SPECIAL
                 THEN IF SpecialHeld(pl)
                      THEN manage_input_actions(w1, pi, acts, j + 1, dist, [fl1 EXCEPT !.special = TRUE])
                      ELSE special_pressed(detonate(w1, pi), pi, acts, j, dist, fl1)
             ELSE manage_input_actions(w1, pi, acts, j + 1, dist, fl1)

\* Player.__resolve_collisions after collision_type was computed as ct
collision_response(w, pi, dist, px, py, ct) ==
    LET pl == w.players[pi]
        back == [w |-> [w EXCEPT !.players[pi].x = px, !.players[pi].y = py], hit |-> TRUE]
        against == CASE ct = COLLISION_BORDER_UP -> STATE_WALKING_UP
                     [] ct = COLLISION_BORDER_DOWN -> STATE_WALKING_DOWN
                     [] ct = COLLISION_BORDER_RIGHT -> STATE_WALKING_RIGHT
                     [] OTHER -> STATE_WALKING_LEFT
        along == IF ct \in {COLLISION_BORDER_UP, COLLISION_BORDER_DOWN}
                 THEN {STATE_WALKING_LEFT, STATE_WALKING_RIGHT}
                 ELSE {STATE_WALKING_UP, STATE_WALKING_DOWN}
        shift == CASE ct = COLLISION_BORDER_UP -> <<dist, 0>>
                   [] ct = COLLISION_BORDER_DOWN -> <<-dist, 0>>
                   [] ct = COLLISION_BORDER_RIGHT -> <<0, -dist>>
                   [] OTHER -> <<0, dist>>
    IN  IF ct = COLLISION_TOTAL THEN back
        ELSE IF ct \in {COLLISION_BORDER_UP, COLLISION_BORDER_DOWN,
                        COLLISION_BORDER_RIGHT, COLLISION_BORDER_LEFT}
            THEN IF pl.state = against THEN back
                 ELSE IF pl.state \in along
                      THEN [w |-> [w EXCEPT !.players[pi].x = @ + shift[1],
                                            !.players[pi].y = @ + shift[2]],
                            hit |-> FALSE]
                 ELSE [w |-> w, hit |-> FALSE]
        ELSE [w |-> w, hit |-> FALSE]

\* Player.__resolve_collisions; (px, py) is previous_position
resolve_collisions(w, pi, dist, px, py) ==
    collision_response(w, pi, dist, px, py,
                       get_position_collision_type(w, w.players[pi].x, w.players[pi].y))

\* __manage_kick_box: the position a kicked bomb is aligned to. For a vertical
\* kick the source passes Coordinate(floor(col), row + 0.5).
KickAlign(bomb_movement, x, y) ==
    IF bomb_movement \in {BOMB_ROLLING_LEFT, BOMB_ROLLING_RIGHT}
    THEN <<(x \div Milli) * Milli + 500, y>>
    ELSE <<(x \div Milli) * Milli, y + 500>>

\* __manage_kick_box: the bomb at index i on the forward tile is boxed or kicked
kick_or_box(w, pi, i) ==
    LET pl == w.players[pi]
        bomb_movement == CASE pl.state = STATE_WALKING_UP -> BOMB_ROLLING_UP
                           [] pl.state = STATE_WALKING_RIGHT -> BOMB_ROLLING_RIGHT
                           [] pl.state = STATE_WALKING_DOWN -> BOMB_ROLLING_DOWN
                           [] pl.state = STATE_WALKING_LEFT -> BOMB_ROLLING_LEFT
                           [] OTHER -> BOMB_NO_MOVEMENT
        dv == get_direction_vector(pl)
        forward_tile == get_forward_tile_position(pl)
        to == KickAlign(bomb_movement, w.bombs[i].x, w.bombs[i].y)
    IN  IF pl.boxing
        THEN [w EXCEPT !.bombs[i] = send_flying(@, <<forward_tile[1] + 3 * dv[1],
                                                     forward_tile[2] + 3 * dv[2]>>)]
        ELSE IF pl.has_shoe
        THEN [w EXCEPT !.bombs[i].x = to[1], !.bombs[i].y = to[2],
                       !.bombs[i].movement = bomb_movement]
        ELSE w

\* Player.__manage_kick_box
manage_kick_box(w, pi, collision_happened) ==
    LET pl == w.players[pi]
        forward_tile == get_forward_tile_position(pl)
    IN  IF collision_happened /\ (pl.has_shoe \/ pl.has_boxing_glove) /\ tile_has_bomb(w, forward_tile)
        THEN kick_or_box(w, pi, bomb_index(w, bombs_on_tile(w, forward_tile)[1]))
        ELSE w

\* react_to_inputs: the throwing branch; current_tile is the player's tile
\* before the collisions were resolved
throw_bomb(w, pi, current_tile) ==
    LET pl == w.players[pi]
        dv == get_direction_vector(pl)
        forward_tile == get_forward_tile_position(pl)
        i == bomb_index(w, bombs_on_tile(w, current_tile)[1])
    IN  IF tile_has_bomb(w, current_tile)
        THEN [w EXCEPT !.bombs[i] = send_flying(@, <<forward_tile[1] + 3 * dv[1],
                                                     forward_tile[2] + 3 * dv[2]>>),
                       !.players[pi].wait_for_bomb_release = TRUE,
                       !.players[pi].throwing_time_left = THROWING_TIME]
        ELSE w

\* react_to_inputs: the multibomb loop, laying the i-th bomb of the row
RECURSIVE put_multibomb(_, _, _, _)
put_multibomb(w, pi, current_tile, i) ==
    LET dv == get_direction_vector(w.players[pi])
        next_tile == <<current_tile[1] + dv[1] * i, current_tile[2] + dv[2] * i>>
    IN  IF w.players[pi].bombs_left > 0
           /\ ~(~tile_is_walkable(w, next_tile) \/ tile_has_player(w, next_tile))
        THEN put_multibomb(lay_bomb(w, pi, next_tile), pi, current_tile, i + 1)
        ELSE w

\* the idle state react_to_inputs resets the player to
IdleOf(state) ==
    CASE state \in {STATE_WALKING_UP, STATE_IDLE_UP} -> STATE_IDLE_UP
      [] state \in {STATE_WALKING_RIGHT, STATE_IDLE_RIGHT} -> STATE_IDLE_RIGHT
      [] state \in {STATE_WALKING_DOWN, STATE_IDLE_DOWN} -> STATE_IDLE_DOWN
      [] OTHER -> STATE_IDLE_LEFT

\* dt / 1000.0 * current_speed in thousandths of a tile (SLOW_SPEED is 1.5)
distance_to_travel(pl, dt) ==
    IF pl.disease = DISEASE_SLOW THEN (dt * 3) \div 2 ELSE dt * pl.speed

\* react_to_inputs, the end: the disease wears off and state_time is kept;
\* pl is the player as react_to_inputs found it
react_finish(w7, pi, dt, pl) ==
    LET left == Max(0, w7.players[pi].disease_time_left - dt)
        w8 == IF w7.players[pi].disease # DISEASE_NONE
              THEN [w7 EXCEPT !.players[pi].disease_time_left = left,
                              !.players[pi].disease = IF left = 0 THEN DISEASE_NONE ELSE @]
              ELSE w7
    IN  [w8 EXCEPT !.players[pi].state_time =
                        IF pl.state = w8.players[pi].state THEN @ + dt ELSE 0]

\* react_to_inputs after __manage_kick_box: throwing and the multibomb
react_after_kick(w6, pi, dt, pl, fl, current_tile) ==
    react_finish(IF fl.throwing THEN throw_bomb(w6, pi, current_tile)
                 ELSE IF fl.putting_multibomb
                      THEN put_multibomb(w6, pi, player_tile_of(w6.players[pi]), 1)
                 ELSE w6,
                 pi, dt, pl)

\* react_to_inputs after the collisions were resolved as rc: the bomb is
\* laid, then the kick or the box
react_after_collisions(rc, pi, dt, pl, fl, current_tile) ==
    LET p4 == rc.w.players[pi]
        w5 == IF fl.putting_bomb /\ NoBombUnder(rc.w, p4)
                 /\ ~tile_has_teleport(rc.w, player_tile_of(p4))
              THEN lay_bomb(rc.w, pi, NoPos) ELSE rc.w
    IN  react_after_kick(manage_kick_box(w5, pi, rc.hit), pi, dt, pl, fl, current_tile)

\* react_to_inputs after __manage_input_actions returned m
react_after_actions(m, pi, dt, pl, dist) ==
    LET current_tile == player_tile_of(m.w.players[pi])
        transitioning_tiles == current_tile # player_tile_of(pl)
        w3 == IF transitioning_tiles
              THEN [m.w EXCEPT !.players[pi].wait_for_tile_transition = FALSE] ELSE m.w
        check_collisions == ~(tile_has_bomb(w3, current_tile) /\ ~transitioning_tiles)
    IN  IF m.w.err THEN m.w
        ELSE react_after_collisions(
                IF check_collisions THEN resolve_collisions(w3, pi, dist, pl.x, pl.y)
                ELSE [w |-> w3, hit |-> FALSE],
                pi, dt, pl, m.fl, current_tile)

\* Player.react_to_inputs after the in-air / teleporting prologue
react_body(w, pi, acts_in, dt) ==
    LET pl == w.players[pi]
        dist == distance_to_travel(pl, dt)
        w1 == [w EXCEPT !.players[pi].throwing_time_left = Max(0, @ - dt),
                        !.players[pi].state = IdleOf(pl.state),
                        !.players[pi].boxing = FALSE]
        acts == IF pl.disease = DISEASE_DIARRHEA THEN Append(acts_in, ACTION_BOMB) ELSE acts_in
    IN  react_after_actions(
            manage_input_actions(w1, pi, acts, 1, dist,
                [moved |-> FALSE, detonated |-> FALSE, special |-> FALSE, bomb |-> FALSE,
                 putting_bomb |-> FALSE, putting_multibomb |-> FALSE, throwing |-> FALSE]),
            pi, dt, pl, dist)

\* Player.react_to_inputs(input_actions, dt, game_map) for the player at
\* index pi; acts_in are the entries of input_actions with the player's number
\* a plausible slip of IgnoresInputs: the test for a dead player is missing
IgnoresInputs_only_waiting(w, pl) == w.gm.state = STATE_WAITING_TO_PLAY

\* react_to_inputs: the test of its first return
IgnoresInputs(w, pl) == pl.state = STATE_DEAD \/ w.gm.state = STATE_WAITING_TO_PLAY

\* a plausible slip of InFlightFor: the teleporting player is forgotten
InFlightFor_only_in_air(pl, dt) ==
    /\ pl.state = STATE_IN_AIR
    /\ pl.state_time + dt < JUMP_DURATION

\* react_to_inputs: the player is in the air or teleporting and stays so
\* after dt more
InFlightFor(pl, dt) ==
    /\ pl.state \in {STATE_IN_AIR, STATE_TELEPORTING}
    /\ pl.state_time + dt < (IF pl.state = STATE_IN_AIR THEN JUMP_DURATION ELSE TELEPORT_DURATION)

\* a plausible slip of leave_flight: the state of before the flight is not
\* put back
leave_flight_as_idle(w, pi) ==
    [w EXCEPT !.players[pi].state = STATE_IDLE_DOWN,
              !.players[pi].state_time = 0,
              !.players[pi].jumping_to = NoPos,
              !.players[pi].teleporting_to = NoPos]

\* react_to_inputs: the end of a jump or of a teleport
leave_flight(w, pi) ==
    [w EXCEPT !.players[pi].state = w.players[pi].state_backup,
              !.players[pi].state_time = 0,
              !.players[pi].jumping_to = NoPos,
              !.players[pi].teleporting_to = NoPos]

react_to_inputs(w, pi, acts_in, dt) ==
    LET pl == w.players[pi]
        in_flight == pl.state \in {STATE_IN_AIR, STATE_TELEPORTING}
    IN  IF w.err \/ IgnoresInputs(w, pl) THEN w
        ELSE IF InFlightFor(pl, dt)
            THEN [w EXCEPT !.players[pi].state_time = @ + dt]
        ELSE react_body(IF in_flight THEN leave_flight(w, pi) ELSE w, pi, acts_in, dt)

(* ---------------------------- danger map ------------------------------ *)
\* MapTile.should_not_walk
should_not_walk(t) ==
    \/ t.kind \in {TILE_WALL, TILE_BLOCK}
    \/ Len(t.flames) >= 1
    \/ t.special_object = SPECIAL_OBJECT_LAVA

\* GameMap._update_danger_entry
update_danger_entry(w) ==
    [p \in Pos |-> IF should_not_walk(w.tiles[p]) THEN 0 ELSE SAFE_DANGER_VALUE]

\* The spreading loop of update_danger_map for one bomb at tile bt: step k is
\* distance k \div 4 + 1 in direction k % 4.
RECURSIVE SpreadDanger(_, _, _, _, _, _, _)
SpreadDanger(w, dm, stop, bt, n, time, k) ==
    IF k >= 4 * n THEN dm
    ELSE LET d == k % 4
             p == <<bt[1] + DirVec(d)[1] * ((k \div 4) + 1), bt[2] + DirVec(d)[2] * ((k \div 4) + 1)>>
         IN  IF stop[d + 1] THEN SpreadDanger(w, dm, stop, bt, n, time, k + 1)
             ELSE IF ~tile_is_walkable(w, p) \/ ~tile_is_withing_map(p)
                 THEN SpreadDanger(w, dm, [stop EXCEPT ![d + 1] = TRUE], bt, n, time, k + 1)
             ELSE SpreadDanger(w, [dm EXCEPT ![p] = Min(@, time)], stop, bt, n, time, k + 1)

\* a plausible slip of DangerTime: a detonator bomb counts with its own timer
DangerTime_no_detonator(b) == time_until_explosion(b)

\* update_danger_map: time_until_explosion of a bomb, 100 with a detonator
DangerTime(b) == IF has_detonator(b) THEN DETONATOR_DANGER ELSE time_until_explosion(b)

\* GameMap.update_danger_map: the loop over self.bombs from index i; dm is the
\* danger map so far. The result is the world with the new map, or raised.
RECURSIVE update_danger_map(_, _, _)
update_danger_map(w, dm, i) ==
    IF i > Len(w.bombs) THEN [w EXCEPT !.danger.map = dm]
    ELSE LET b == w.bombs[i]
             bt == bomb_tile_of(b)
             time == DangerTime(b)
             dm1 == [dm EXCEPT ![get_tile_key(bt)] = Min(@, time)]
         IN  IF get_tile_raises(bt) THEN Raise([w EXCEPT !.danger.map = dm])
             ELSE update_danger_map(w, SpreadDanger(w, dm1, <<FALSE, FALSE, FALSE, FALSE>>,
                                                    bt, b.flame_length, time, 0), i + 1)

\* get_danger_value(t) once the danger map is w1's: the world after the call,
\* whether the call raised, and the value returned (-1 stands for no value
\* when it raised)
danger_value_in(w1, t) ==
    [w |-> IF w1.err THEN w1 ELSE [w1 EXCEPT !.danger.up_to_date = TRUE],
     raised |-> w1.err,
     value |-> IF w1.err THEN -1
               ELSE IF ~tile_is_withing_map(t) THEN 0
               ELSE w1.danger.map[t]]

\* a plausible slip of DangerMapIsStale: the cached map is never trusted
DangerMapIsStale_always(d) == TRUE

\* get_danger_value: if not self.danger_map_is_up_to_date
DangerMapIsStale(d) == ~d.up_to_date

\* GameMap.get_danger_value(t): the danger map is rebuilt when out of date;
\* danger.rebuilds is history: the calls of update_danger_map since the last
\* update()
get_danger_value(w, t) ==
    danger_value_in(IF ~DangerMapIsStale(w.danger) THEN w
                    ELSE update_danger_map([w EXCEPT !.danger.rebuilds = @ + 1],
                                           update_danger_entry(w), 1), t)

(* -------------------------- GameMap.__init__ --------------------------- *)
\* A map description is modelled by its parts: layout[p], the tile character
\* at column p[1] of row p[2] of the tile grid; start_items and map_items, the
\* item codes of the two item strings; slots, the team number of each used
\* player slot in slot order.

\* the tile kind GameMap.__init__ gives a tile character
ParseKind(ch) ==
    IF ch = "x" \/ ch \in {"U", "R", "D", "L"} THEN TILE_BLOCK
    ELSE IF ch = "#" THEN TILE_WALL
    ELSE TILE_FLOOR

\* the special object GameMap.__init__ gives a tile character ("B" gets
\* SPECIAL_OBJECT_TELEPORT_A in the source)
ParseSpecial(ch) ==
    CASE ch \in {"u", "U"} -> SPECIAL_OBJECT_ARROW_UP
      [] ch \in {"r", "R"} -> SPECIAL_OBJECT_ARROW_RIGHT
      [] ch \in {"d", "D"} -> SPECIAL_OBJECT_ARROW_DOWN
      [] ch \in {"l", "L"} -> SPECIAL_OBJECT_ARROW_LEFT
      [] ch = "A" -> SPECIAL_OBJECT_TELEPORT_A
      [] ch = "B" -> SPECIAL_OBJECT_TELEPORT_A
      [] ch = "T" -> SPECIAL_OBJECT_TRAMPOLINE
      [] ch = "V" -> SPECIAL_OBJECT_LAVA
      [] OTHER -> NoObject

\* the row-major number of a tile
RowMajor(p) == p[2] * MapCols + p[1]

\* the pairing of the teleports with character ch: the first such tile in
\* row-major order is paired with every later one, and keeps the last of them
TeleportDestination(layout, ch, p) ==
    LET same == {q \in Pos : layout[q] = ch}
        first == CHOOSE q \in same : \A o \in same : RowMajor(q) <= RowMajor(o)
        last == CHOOSE q \in same : \A o \in same : RowMajor(q) >= RowMajor(o)
    IN  IF layout[p] # ch \/ Cardinality(same) < 2 THEN NoPos
        ELSE IF p = first THEN last ELSE first

\* MapTile as GameMap.__init__ leaves it, before the items are placed
InitialTile(layout, p) ==
    [kind |-> ParseKind(layout[p]),
     flames |-> <<>>,
     to_be_destroyed |-> FALSE,
     item |-> NoObject,
     special_object |-> ParseSpecial(layout[p]),
     destination_teleport |->
        IF layout[p] = "A" THEN TeleportDestination(layout, "A", p)
        ELSE IF layout[p] = "B" THEN TeleportDestination(layout, "B", p)
        ELSE NoPos]

\* self.starting_positions[number]: the tile with that digit, (0, 0) without one
StartingPosition(layout, number) ==
    LET digit == <<"0", "1", "2", "3", "4", "5", "6", "7", "8", "9">>[number + 1]
        S == {p \in Pos : layout[p] = digit}
    IN  IF S = {} THEN <<0, 0>>
        ELSE CHOOSE p \in S : \A o \in S : RowMajor(p) >= RowMajor(o)

\* Player() as GameMap.__init__ places it, before the starting items
InitialPlayer(layout, number, team) ==
    [number |-> number,
     team_number |-> team,
     x |-> StartingPosition(layout, number)[1] * Milli + 500,
     y |-> StartingPosition(layout, number)[2] * Milli + 500,
     state |-> STATE_IDLE_DOWN,
     state_time |-> 0,
     speed |-> INITIAL_SPEED,
     bombs_left |-> 1,
     flame_length |-> 1,
     items |-> <<[item |-> ITEM_BOMB, amount |-> 1], [item |-> ITEM_FLAME, amount |-> 1]>>,
     has_spring |-> FALSE,
     has_shoe |-> FALSE,
     disease_time_left |-> 0,
     disease |-> DISEASE_NONE,
     has_multibomb |-> FALSE,
     has_boxing_glove |-> FALSE,
     has_throwing_glove |-> FALSE,
     boxing |-> FALSE,
     detonator_bombs_left |-> 0,
     detonator_bombs |-> <<>>,
     wait_for_special_release |-> FALSE,
     wait_for_bomb_release |-> FALSE,
     throwing_time_left |-> 0,
     state_backup |-> STATE_IDLE_UP,
     jumping_to |-> <<0, 0>>,
     teleporting_to |-> <<0, 0>>,
     wait_for_tile_transition |-> FALSE,
     kills |-> 0]

\* the loops that give every player every starting item: item k to player pi
RECURSIVE give_starting_items(_, _, _, _)
give_starting_items(w, start_items, k, pi) ==
    IF k > Len(start_items) THEN w
    ELSE IF pi > Len(w.players) THEN give_starting_items(w, start_items, k + 1, 1)
    ELSE give_starting_items(
            give_item(w, pi, start_items[k], [rank |-> <<>>, roll |-> ITEM_BOMB,
                                              disease |-> DISEASE_SLOW, other |-> 0]),
            start_items, k, pi + 1)

\* GameMap(map_data, play_setup, game_info): the world after construction.
\* rank decides the random.choice of the block tiles the map items go under;
\* started_at is pygame.time.get_ticks() at the construction.
GameMap(layout, start_items, map_items, slots, rank, started_at) ==
    LET blocks == {p \in Pos : ParseKind(layout[p]) = TILE_BLOCK}
        \* block_tiles holds the tiles of the character "x" only
        block_tiles == {p \in Pos : layout[p] = "x"}
        chosen == FirstEligible(rank, block_tiles, Len(map_items), 1)
        w0 == [tiles |-> [p \in Pos |->
                    IF \E j \in 1..Len(chosen) : chosen[j] = p
                    THEN [InitialTile(layout, p) EXCEPT
                            !.item = map_items[CHOOSE j \in 1..Len(chosen) : chosen[j] = p]]
                    ELSE InitialTile(layout, p)],
               bombs |-> <<>>,
               players |-> [i \in 1..Len(slots) |->
                                InitialPlayer(layout, slots[i].number, slots[i].team)],
               gm |-> [time_from_start |-> 0,
                       wall_offset |-> started_at,
                       earthquake_time_left |-> 0,
                       number_of_blocks |-> Cardinality(blocks),
                       state |-> STATE_WAITING_TO_PLAY,
                       start_game_at |-> START_GAME_AFTER,
                       end_game_at |-> -1,
                       announce_win_at |-> -1,
                       win_announced |-> FALSE,
                       winner_team |-> -1,
                       winning_color |-> -1,
                       game_is_over |-> FALSE,
                       win_sounds |-> 0,
                       finishing_since |-> -1],
               give |-> <<>>,
               danger |-> [map |-> [p \in Pos |-> SAFE_DANGER_VALUE], up_to_date |-> FALSE,
                           rebuilds |-> 0],
               log |-> <<>>,
               notified |-> <<>>,
               err |-> Len(map_items) > Cardinality(block_tiles)]
    IN  give_starting_items(w0, start_items, 1, 1)

(* ------------------------------ actions ------------------------------- *)
\* the variables take the values of the world w
Install(w) ==
    /\ tiles' = w.tiles
    /\ bombs' = w.bombs
    /\ players' = w.players
    /\ gm' = w.gm
    /\ give' = w.give
    /\ danger' = w.danger
    /\ log' = w.log
    /\ notified' = w.notified
    /\ crashed' = w.err

\* the state after GameMap(...) was constructed as the world w
Constructed(w) ==
    /\ tiles = w.tiles
    /\ bombs = w.bombs
    /\ players = w.players
    /\ gm = w.gm
    /\ give = w.give
    /\ danger = w.danger
    /\ log = w.log
    /\ notified = w.notified
    /\ crashed = w.err
    /\ phase = "inputs"
    /\ cur = [dt |-> 0, intents |-> <<>>]
    /\ probe = [q |-> "none"]
    /\ ais = <<>>

\* for player in players: player.react_to_inputs(actions_being_performed, dt, self.game_map)
RECURSIVE react_all(_, _, _, _)
react_all(w, pi, intents, dt) ==
    IF pi > Len(w.players) THEN w
    ELSE react_all(react_to_inputs(w, pi, intents[pi], dt), pi + 1, intents, dt)

\* Game.simulation_step, first half: a frame of dt ms begins (Game.run caps dt
\* at MAX_DT and simulates only until the map is over) and every player
\* reacts to its intents; Menu is the set of intent assignments considered.
SimulationInputs(Menu, Dts) ==
    /\ phase = "inputs"
    /\ ~crashed
    /\ gm.state # STATE_GAME_OVER
    /\ \E dt \in Dts, intents \in Menu :
        /\ dt <= MAX_DT
        /\ gm.time_from_start + dt <= MaxTime
        /\ Install(react_all([World EXCEPT !.log = <<>>], 1, intents, dt))
        /\ cur' = [dt |-> dt, intents |-> intents]
    /\ phase' = "update"
    /\ probe' = [q |-> "none"]
    /\ UNCHANGED ais

\* Game.simulation_step, second half: self.game_map.update(dt, immortal)
MapUpdate(Rnds, immortal) ==
    /\ phase = "update"
    /\ ~crashed
    /\ \E rnd \in Rnds : Install(update(World, cur.dt, immortal, rnd))
    /\ phase' = "inputs"
    /\ UNCHANGED <<cur, probe, ais>>

\* The map queries the AI and the renderer make between two frames, all asked
\* for the tile coordinate t: probe records what each returned; the world
\* after them is the one get_danger_value leaves (the others assign nothing).
Query(Coords) ==
    /\ phase = "inputs"
    /\ ~crashed
    /\ gm.state # STATE_GAME_OVER
    /\ probe.q = "none"
    /\ \E t \in Coords :
        \E d \in {get_danger_value(World, t)} :
            /\ Install(d.w)
            /\ probe' = [q |-> "asked", at |-> t,
                         raised |-> d.raised,
                         danger |-> d.value,
                         walkable |-> tile_is_walkable(World, t),
                         tile_at |-> get_tile_at(t),
                         has_flame |-> tile_has_flame(World, t),
                         has_lava |-> tile_has_lava(World, t),
                         has_teleport |-> tile_has_teleport(World, t),
                         unchanged |-> [d.w EXCEPT !.danger = danger, !.err = FALSE] = World]
    /\ UNCHANGED <<phase, cur, ais>>

\* A further get_danger_value in the same frame, after one was answered: probe
\* keeps the first tile and answer and records the second
QueryAgain(Coords) ==
    /\ phase = "inputs"
    /\ ~crashed
    /\ gm.state # STATE_GAME_OVER
    /\ probe.q = "asked"
    /\ \E t \in Coords :
        \E d \in {get_danger_value(World, t)} :
            /\ Install(d.w)
            /\ probe' = [q |-> "again", at |-> probe.at, danger |-> probe.danger,
                         again_at |-> t, again_raised |-> d.raised, again_danger |-> d.value]
    /\ UNCHANGED <<phase, cur, ais>>

\* tiles in row-major order, and in the opposite order
RowMajorRank == [k \in 1..(MapCols * MapRows) |-> <<(k - 1) % MapCols, (k - 1) \div MapCols>>]
ReverseRank == [k \in 1..(MapCols * MapRows) |-> RowMajorRank[MapCols * MapRows + 1 - k]]

\* the outcomes of random.choice considered when nothing hinges on them
PlainRnd == [rank |-> RowMajorRank, roll |-> ITEM_FLAME, disease |-> DISEASE_SLOW, other |-> 0]

(* ------------------------ the blast scenario -------------------------- *)
\* walls on the odd/odd tiles, one block, two players of two teams in the
\* upper corners
BlastLayout ==
    [p \in Pos |->
        IF p = <<0, 0>> THEN "0"
        ELSE IF p = <<MapCols - 1, 0>> THEN "1"
        ELSE IF p[1] % 2 = 1 /\ p[2] % 2 = 1 THEN "#"
        ELSE IF p = <<3, 0>> THEN "x"
        ELSE "."]

\* no walls and no blocks, player 0 one tile off the corner
OpenLayout ==
    [p \in Pos |->
        IF p = <<1, 1>> THEN "0"
        ELSE IF p = <<MapCols - 1, MapRows - 1>> THEN "1"
        ELSE "."]

TwoTeams == <<[number |-> 0, team |-> 0], [number |-> 1, team |-> 1]>>

\* the player is about in the middle of its tile, horizontally
Centred(pl) == pl.x % Milli >= 400 /\ pl.x % Milli <= 700

\* The intents of the blast scenario.  Player 0 walks right, up to the third
\* column, and lays a bomb somewhere on the way; then it walks back or stands
\* until the bomb has exploded.  Player 1 stands.
BlastMenu ==
    LET pl == players[1]
        a == IF Len(notified) = 0
             THEN (IF pl.x < 2500 THEN {<<ACTION_RIGHT>>} ELSE {})
                  \cup (IF Centred(pl) THEN {<<ACTION_BOMB>>} ELSE {})
             ELSE IF Len(bombs) > 0
              THEN IF bombs[1].time_of_existence <= 300 THEN {<<ACTION_LEFT>>, <<>>}
                   ELSE IF pl.state = STATE_WALKING_LEFT THEN {<<ACTION_LEFT>>}
                   ELSE {<<>>}
             ELSE {<<>>}
    IN  {<<x, <<>> >> : x \in a}

Init ==
    \/ \E start_items \in {<<>>, <<ITEM_FLAME>>} :
        Constructed(GameMap(BlastLayout, start_items, <<ITEM_FLAME>>, TwoTeams, RowMajorRank, WallOffsetAtStart))
    \/ \E start_items \in {<<>>, <<ITEM_FLAME>>} :
        Constructed(GameMap(OpenLayout, start_items, <<>>, TwoTeams, RowMajorRank, WallOffsetAtStart))

Next ==
    \/ SimulationInputs(BlastMenu, {MAX_DT})
    \/ MapUpdate({PlainRnd}, {})

Spec == Init /\ [][Next]_vars

(* ------------------------------ claims -------------------------------- *)
\* a step of MapUpdate
IsMapUpdate == phase = "update" /\ phase' = "inputs"

\* the bomb object id is still in the bomb list after the step
StillOnMap(id) == \E j \in 1..Len(bombs') : bombs'[j].id = id

\* an explosion of the step other than of the bomb id put a flame on tile t
FlameArrives(id, t) == \E k \in 1..Len(log') : log'[k].id # id /\ t \in log'[k].gained

\* C1: a non-flying bomb with no detonator and the default fuse, not on lava
\* and not touched by flame, stays on the map in every update that leaves its
\* time_of_existence <= 3000, and explodes (by its fuse) in the first update
\* that makes it > 3000.
C1_FuseTiming ==
    [][IsMapUpdate =>
        \A i \in 1..Len(bombs) :
            LET b == bombs[i]
                t == bomb_tile_of(b)
                toe == b.time_of_existence + cur.dt
            IN  (/\ b.movement # BOMB_FLYING
                 /\ b.detonator_time = 0
                 /\ b.explodes_in = BOMB_EXPLODES_IN
                 /\ t \in Pos
                 /\ tiles[t].special_object # SPECIAL_OBJECT_LAVA
                 /\ Len(tiles[t].flames) = 0
                 /\ ~FlameArrives(b.id, t))
                => IF toe <= BOMB_EXPLODES_IN
                   THEN \E j \in 1..Len(bombs') :
                            bombs'[j].id = b.id /\ bombs'[j].time_of_existence = toe
                   ELSE /\ ~StillOnMap(b.id)
                        /\ \E k \in 1..Len(log') :
                            /\ log'[k].id = b.id
                            /\ log'[k].cause = "fuse"
                            /\ log'[k].toe = toe
                            /\ log'[k].toe - cur.dt <= BOMB_EXPLODES_IN]_vars

\* C1 witness: a bomb with the default fuse has just exploded, in the update
\* that took its time_of_existence from exactly 3000 to 3100
C1_Witness ==
    /\ phase = "inputs"
    /\ \E k \in 1..Len(log) :
        /\ log[k].cause = "fuse"
        /\ log[k].fuse = BOMB_EXPLODES_IN
        /\ log[k].toe - cur.dt = BOMB_EXPLODES_IN

\* the tile k steps from t in direction d
Step(t, d, k) == <<t[1] + k * DirVec(d)[1], t[2] + k * DirVec(d)[2]>>

\* The footprint the specification gives an explosion on tile t with flame
\* length n over a map whose tile kinds are kinds: t itself and, in each
\* direction, the tiles up to distance n that are inside the map and not a
\* Wall, with only Floor tiles between them and t.
Footprint(t, n, kinds) ==
    {t} \cup {p \in Pos : \E d \in 0..3, k \in 1..n :
                /\ p = Step(t, d, k)
                /\ kinds[p] # TILE_WALL
                /\ \A j \in 1..(k - 1) : Step(t, d, j) \in Pos /\ kinds[Step(t, d, j)] = TILE_FLOOR}

\* C2: a bomb with flame length N exploding on tile T puts a flame on T and,
\* independently up, right, down and left, on consecutive tiles until the map
\* edge, a Wall (no flame on it), a Block (flame on it, then stop) or N tiles.
C2_Footprint ==
    \A k \in 1..Len(log) :
        log[k].tile \in Pos =>
            log[k].gained = Footprint(log[k].tile, log[k].flame_length, log[k].kinds)

\* C2 witness: flame length 1 on open floor lights the centre and its four
\* neighbours and no corner
C2_Witness ==
    \E k \in 1..Len(log) :
        /\ log[k].flame_length = 1
        /\ log[k].tile = <<2, 1>>
        /\ \A c \in 1..3, r \in 0..2 : log[k].kinds[<<c, r>>] = TILE_FLOOR
        /\ log[k].gained = {<<2, 1>>, <<1, 1>>, <<3, 1>>, <<2, 0>>, <<2, 2>>}

\* C2 witness of the stopping rules: a flame of length 2 lit a Block next to
\* the bomb and not the floor behind it, and was kept off a Wall
C2_WitnessStops ==
    \E k \in 1..Len(log) :
        /\ log[k].flame_length = 2
        /\ \E d \in 0..3 :
            /\ Step(log[k].tile, d, 2) \in Pos
            /\ log[k].kinds[Step(log[k].tile, d, 1)] = TILE_BLOCK
            /\ log[k].kinds[Step(log[k].tile, d, 2)] = TILE_FLOOR
            /\ Step(log[k].tile, d, 1) \in log[k].gained
            /\ Step(log[k].tile, d, 2) \notin log[k].gained

\* the tile kinds that change in the step
Converted == {p \in Pos : tiles'[p].kind # tiles[p].kind}

\* C3: a Block that receives a flame is marked to_be_destroyed and stays a
\* Block while it burns; once its last flame is gone it becomes Floor, the
\* mark is cleared and number_of_blocks drops by exactly one for it.
C3_BlockDestruction ==
    [][IsMapUpdate =>
        /\ \A p \in Pos :
            /\ (tiles[p].kind = TILE_BLOCK /\ Len(tiles[p].flames) > 0)
                    => tiles'[p].kind = TILE_BLOCK /\ tiles'[p].to_be_destroyed
            /\ (tiles[p].kind = TILE_BLOCK /\ tiles[p].to_be_destroyed
                    /\ Len(tiles[p].flames) = 0 /\ ~FlameArrives(0, p))
                    => tiles'[p].kind = TILE_FLOOR /\ ~tiles'[p].to_be_destroyed
            /\ p \in Converted
                    => /\ tiles[p].kind = TILE_BLOCK /\ tiles'[p].kind = TILE_FLOOR
                       /\ tiles[p].to_be_destroyed /\ Len(tiles[p].flames) = 0
        /\ gm'.number_of_blocks = gm.number_of_blocks - Cardinality(Converted)]_vars

\* C3 witness: the block of the layout has burnt down to a Floor tile and the
\* count of blocks went from one to zero
C3_Witness ==
    /\ tiles[<<3, 0>>].kind = TILE_FLOOR
    /\ tiles[<<3, 0>>].item = ITEM_FLAME
    /\ ~tiles[<<3, 0>>].to_be_destroyed
    /\ gm.number_of_blocks = 0

(* ------------------------ the causes scenario ------------------------- *)
\* open floor with a lava tile on player 0's row
CausesLayout ==
    [p \in Pos |->
        IF p = <<0, 0>> THEN "0"
        ELSE IF p = <<MapCols - 1, MapRows - 1>> THEN "1"
        ELSE IF p = <<3, 0>> THEN "V"
        ELSE "."]

\* player 0 walks right towards the lava, lays bombs on the way (the last one
\* on the lava itself) and fires its detonator bombs; player 1 stands
CausesMenu ==
    LET pl == players[1]
        may_bomb == pl.bombs_left > 0
        may_fire == Len(pl.detonator_bombs) > 0
        a == IF pl.state = STATE_DEAD \/ pl.x >= 3200 THEN {<<>>}
             ELSE IF pl.x = 2900
             THEN {<<>>} \cup (IF may_bomb THEN {<<ACTION_RIGHT, ACTION_BOMB>>} ELSE {})
                         \cup (IF may_fire THEN {<<ACTION_SPECIAL>>} ELSE {})
             ELSE {<<ACTION_RIGHT>>}
                    \cup (IF may_bomb /\ pl.x % 600 = 500 THEN {<<ACTION_RIGHT, ACTION_BOMB>>} ELSE {})
                    \cup (IF may_fire /\ pl.x % 600 = 200 THEN {<<ACTION_RIGHT, ACTION_SPECIAL>>} ELSE {})
    IN  {<<x, <<>> >> : x \in a}

InitCauses ==
    \E start_items \in {<<ITEM_BOMB>>, <<ITEM_BOMB, ITEM_DETONATOR>>} :
        Constructed(GameMap(CausesLayout, start_items, <<>>, TwoTeams, RowMajorRank, WallOffsetAtStart))

NextCauses ==
    \/ SimulationInputs(CausesMenu, {MAX_DT})
    \/ MapUpdate({PlainRnd}, {})

SpecCauses == InitCauses /\ [][NextCauses]_vars

\* a bomb object id is in the map's bomb list
OnMap(id) == \E j \in 1..Len(bombs) : bombs[j].id = id

\* every cause of explosion of the source
Causes == {"fuse", "lava", "flame", "detonator"}

\* C4: whichever of the four causes explodes a bomb, its owner's
\* bomb_exploded is called exactly once for it: never twice, and no bomb
\* leaves the map without it.
C4_NotifiedOnce ==
    /\ \A id \in 1..Len(notified) : notified[id] = IF OnMap(id) THEN 0 ELSE 1
    /\ \A k \in 1..Len(log) : log[k].cause \in Causes /\ notified[log[k].id] = 1

\* C4 witness: a chain reaction: one bomb went off by its fuse and its flame
\* set off a second one in the same update, each notified once
C4_Witness ==
    \E j, k \in 1..Len(log) :
        /\ log[j].cause = "fuse" /\ log[k].cause = "flame"
        /\ log[j].id # log[k].id
        /\ notified[log[j].id] = 1 /\ notified[log[k].id] = 1

\* a bomb has exploded on lava
C4_ReachLava == \E k \in 1..Len(log) : log[k].cause = "lava" /\ notified[log[k].id] = 1

\* a bomb has been fired by its detonator
C4_ReachDetonator == \E k \in 1..Len(log) : log[k].cause = "detonator" /\ notified[log[k].id] = 1

(* ------------------------- the round scenario ------------------------- *)
\* three players in three corners, each with a lava tile next to it
RoundLayout ==
    [p \in Pos |->
        IF p = <<0, 0>> THEN "0"
        ELSE IF p = <<MapCols - 1, 0>> THEN "1"
        ELSE IF p = <<0, MapRows - 1>> THEN "2"
        ELSE IF p \in {<<1, 0>>, <<MapCols - 2, 0>>, <<1, MapRows - 1>>} THEN "V"
        ELSE "."]

\* the team setups of the play menu considered
OneTeam == <<[number |-> 0, team |-> 0], [number |-> 1, team |-> 0]>>
ThreePlayers == <<[number |-> 0, team |-> 0], [number |-> 1, team |-> 0], [number |-> 2, team |-> 1]>>

\* the key that walks the player with the given number into its lava tile
TowardsLava(number) == IF number = 1 THEN ACTION_LEFT ELSE ACTION_RIGHT

\* each living player stands at its start or, in the first moments of play,
\* sets off into the lava and keeps walking
RoundMenu ==
    LET opt(i) ==
            LET pl == players[i]
            IN  IF pl.state = STATE_DEAD THEN {<<>>}
                ELSE IF pl.x % Milli # 500 THEN {<<TowardsLava(pl.number)>>}
                ELSE IF gm.time_from_start < START_GAME_AFTER + 700
                     THEN {<<>>, <<TowardsLava(pl.number)>>}
                ELSE {<<>>}
    IN  {f \in [1..Len(players) -> {<<>>, <<ACTION_LEFT>>, <<ACTION_RIGHT>>}] :
            \A i \in 1..Len(players) : f[i] \in opt(i)}

InitRound ==
    \E slots \in {TwoTeams, OneTeam, ThreePlayers} :
        Constructed(GameMap(RoundLayout, <<>>, <<>>, slots, RowMajorRank, WallOffsetAtStart))

NextRound ==
    \/ SimulationInputs(RoundMenu, {MAX_DT})
    \/ MapUpdate({PlainRnd}, {})

SpecRound == InitRound /\ [][NextRound]_vars

\* the teams of the living players
LivingTeams(ps) == {ps[i].team_number : i \in {j \in 1..Len(ps) : ps[j].state # STATE_DEAD}}

\* C6: the round state changes only along WaitingToPlay -> Playing ->
\* Finishing -> GameOver, one edge at a time, never backwards, never from
\* WaitingToPlay to Finishing, and never out of GameOver.
C6_Edges ==
    [][gm'.state # gm.state =>
        <<gm.state, gm'.state>> \in {<<STATE_WAITING_TO_PLAY, STATE_PLAYING>>,
                                     <<STATE_PLAYING, STATE_FINISHING>>,
                                     <<STATE_FINISHING, STATE_GAME_OVER>>}]_vars

\* C7: while Playing, an update takes the round to Finishing exactly if after
\* its player pass the living players are of at most one team, and winner_team
\* is then that team, or -1 when nobody lives.
C7_FinishingWhenDecided ==
    [][(IsMapUpdate /\ gm.state = STATE_PLAYING) =>
        /\ gm'.state = STATE_FINISHING <=> Cardinality(LivingTeams(players')) <= 1
        /\ gm'.state = STATE_FINISHING =>
            \/ LivingTeams(players') = {} /\ gm'.winner_team = -1
            \/ LivingTeams(players') = {gm'.winner_team}]_vars

\* C8: a round that entered Finishing at map time t becomes GameOver in the
\* first update with time_from_start >= t + 5000 and not before, and the win
\* is announced exactly once, in the first update with time_from_start >= t + 2000.
C8_FinishingTimers ==
    [][(IsMapUpdate /\ gm.state = STATE_FINISHING) =>
        LET t == gm.finishing_since
            now == gm'.time_from_start
        IN  /\ gm'.state = IF now >= t + 5000 THEN STATE_GAME_OVER ELSE STATE_FINISHING
            /\ gm'.win_sounds - gm.win_sounds =
                    IF now >= t + 2000 /\ gm.time_from_start < t + 2000 THEN 1 ELSE 0
            /\ gm.win_sounds = IF gm.time_from_start >= t + 2000 THEN 1 ELSE 0]_vars

\* C8 witness: a round that entered Finishing while Playing is over, exactly
\* 5000 ms later, with its one announcement made
C8_Witness ==
    /\ gm.state = STATE_GAME_OVER
    /\ gm.finishing_since > START_GAME_AFTER
    /\ gm.time_from_start = gm.finishing_since + 5000
    /\ gm.win_sounds = 1

(* ----------------------- the kick/throw scenario ---------------------- *)
\* player 0 starts in the last column with a wall two tiles below it and a
\* block two tiles to its left; player 1 stands in the far corner
KickStart == <<MapCols - 1, 1>>
KickLayout ==
    [p \in Pos |->
        IF p = KickStart THEN "0"
        ELSE IF p = <<0, MapRows - 1>> THEN "1"
        ELSE IF p = <<MapCols - 1, 3>> THEN "#"
        ELSE IF p = <<MapCols - 3, 1>> THEN "x"
        ELSE "."]

\* the key that walks from tile a towards the neighbouring tile b
KeyTowards(a, b) ==
    IF b[2] < a[2] THEN ACTION_UP
    ELSE IF b[2] > a[2] THEN ACTION_DOWN
    ELSE IF b[1] < a[1] THEN ACTION_LEFT
    ELSE ACTION_RIGHT

\* player 0 steps onto a neighbouring tile, lays a bomb there, then either
\* throws it (throwing glove) or steps back and, at a moment of its choice,
\* walks into the bomb again (a kick with the shoe); player 1 stands
KickMenu ==
    LET pl == players[1]
        pt == player_tile_of(pl)
        c == center_of(pl.x, pl.y)
        a == IF pl.state = STATE_DEAD THEN {<<>>}
             ELSE IF Len(notified) = 0
             THEN IF pt # KickStart THEN {<<ACTION_BOMB>>}
                  ELSE IF pl.y < c[2] THEN {<<ACTION_UP>>}
                  ELSE IF pl.y > c[2] THEN {<<ACTION_DOWN>>}
                  ELSE IF pl.x < c[1] THEN {<<ACTION_LEFT>>}
                  ELSE {<<ACTION_UP>>, <<ACTION_DOWN>>, <<ACTION_LEFT>>}
             ELSE IF Len(bombs) = 1 /\ bombs[1].movement = BOMB_NO_MOVEMENT
             THEN LET bt == bomb_tile_of(bombs[1])
                  IN  IF pt = bt /\ pt # KickStart
                      THEN IF pl.has_throwing_glove /\ ~pl.wait_for_bomb_release
                           THEN {<<ACTION_BOMB_DOUBLE>>}
                           ELSE {<<KeyTowards(pt, KickStart)>>}
                      ELSE IF pt = KickStart /\ pl.has_shoe
                              /\ Abs(bt[1] - pt[1]) + Abs(bt[2] - pt[2]) = 1
                      THEN {<<>>, <<KeyTowards(pt, bt)>>}
                      ELSE {<<>>}
             ELSE {<<>>}
    IN  {<<x, <<>> >> : x \in a}

\* the coordinates asked about while a bomb rolls or flies: three outside the
\* grid and one inside
KickProbes ==
    IF Len(bombs) > 0 /\ bombs[1].movement # BOMB_NO_MOVEMENT
    THEN {<<-1, 0>>, <<MapCols, 1>>, <<2, MapRows>>, <<1, 1>>}
    ELSE {}

InitKick ==
    \E start_items \in {<<ITEM_SHOE>>, <<ITEM_THROWING_GLOVE>>} :
        Constructed(GameMap(KickLayout, start_items, <<>>, TwoTeams, RowMajorRank, WallOffsetAtStart))

NextKick ==
    \/ SimulationInputs(KickMenu, {MAX_DT})
    \/ MapUpdate({PlainRnd}, {})
    \/ Query(KickProbes)

SpecKick == InitKick /\ [][NextKick]_vars

\* C5: every Wall tile has no item, no flame and to_be_destroyed = false,
\* whatever bombs were kicked, rolled, boxed or thrown and exploded.
C5_WallsClean ==
    \A p \in Pos : tiles[p].kind = TILE_WALL =>
        /\ tiles[p].item = NoObject
        /\ tiles[p].flames = <<>>
        /\ ~tiles[p].to_be_destroyed

\* the tile coordinates asked about: the grid and two rings around it
Coords == ((-2)..(MapCols + 1)) \X ((-2)..(MapRows + 1))

\* a non-flying bomb has tile t as its tile position
NonFlyingBombAt(t) ==
    \E i \in 1..Len(bombs) : bombs[i].movement # BOMB_FLYING /\ bomb_tile_of(bombs[i]) = t

\* C9: tile_is_walkable(t) is true exactly if t is inside the grid, the tile
\* is Floor or marked to_be_destroyed, and no non-flying bomb is on it; a
\* flying bomb over the tile does not count.
C9_Walkable ==
    \A t \in Coords :
        tile_is_walkable(World, t) <=>
            /\ t \in Pos
            /\ (tiles[t].kind = TILE_FLOOR \/ tiles[t].to_be_destroyed)
            /\ ~NonFlyingBombAt(t)

\* C9 witness: a thrown bomb is in flight over a Floor tile, which is walkable
C9_Witness ==
    \E i \in 1..Len(bombs) :
        /\ bombs[i].movement = BOMB_FLYING
        /\ bomb_tile_of(bombs[i]) \in Pos
        /\ tiles[bomb_tile_of(bombs[i])].kind = TILE_FLOOR
        /\ tile_is_walkable(World, bomb_tile_of(bombs[i]))

\* a burning Block, marked to_be_destroyed, is walkable
C9_ReachBurningBlock ==
    \E t \in Pos : tiles[t].kind = TILE_BLOCK /\ tiles[t].to_be_destroyed /\ tile_is_walkable(World, t)

\* a tile with a resting bomb is not walkable
C9_ReachBomb ==
    \E t \in Pos : tiles[t].kind = TILE_FLOOR /\ NonFlyingBombAt(t) /\ ~tile_is_walkable(World, t)

\* C10: asked about a coordinate outside the grid, the map queries return
\* their safe defaults without raising and change nothing but the danger map.
C10_SafeDefaults ==
    (probe.q = "asked" /\ probe.at \notin Pos) =>
        /\ ~probe.raised
        /\ probe.danger = 0
        /\ ~probe.walkable
        /\ probe.tile_at = NoPos
        /\ ~probe.has_flame /\ ~probe.has_lava /\ ~probe.has_teleport
        /\ probe.unchanged

(* ------------------------- the danger scenario ------------------------ *)
\* the tiles the AI asks about, while two bombs are on the map
DangerProbes == IF Len(bombs) > 1 THEN {<<1, 0>>, <<2, 2>>} ELSE {}

\* the causes scenario with the danger queries of an AI between the frames
NextDanger ==
    \/ SimulationInputs(CausesMenu, {MAX_DT})
    \/ MapUpdate({PlainRnd}, {})
    \/ Query(DangerProbes)
    \/ QueryAgain(DangerProbes)

SpecDanger == InitCauses /\ [][NextDanger]_vars

\* C11: update() invalidates the danger grid, the first get_danger_value after
\* it recomputes the grid, every further one in the same tick uses the cached
\* grid (at most one recomputation per tick), and a second query of the same
\* tile returns what the first returned (a call that raised returned nothing
\* and ended the program).
C11_RecomputedOncePerTick ==
    /\ danger.rebuilds <= 1
    /\ (phase = "inputs" /\ probe.q = "none") => (~danger.up_to_date /\ danger.rebuilds = 0)
    /\ (probe.q = "asked" /\ ~probe.raised) => (danger.up_to_date /\ danger.rebuilds = 1)
    /\ probe.q = "again" =>
        /\ danger.up_to_date /\ danger.rebuilds = 1
        /\ ~probe.again_raised
        /\ probe.again_at = probe.at => probe.again_danger = probe.danger

\* C11 witness: the same tile was asked twice in one tick, with bombs on the
\* map, and the answer is a bomb's timer
C11_Witness ==
    /\ probe.q = "again"
    /\ probe.again_at = probe.at
    /\ probe.again_danger = probe.danger
    /\ probe.danger \notin {0, SAFE_DANGER_VALUE}

\* the smallest element of a non-empty set of integers
SetMin(S) == CHOOSE x \in S : \A y \in S : x <= y

\* the start value the statement gives a tile
StartValue(t) ==
    IF t.kind = TILE_FLOOR /\ t.flames = <<>> /\ t.special_object # SPECIAL_OBJECT_LAVA
    THEN SAFE_DANGER_VALUE ELSE 0

\* the time the statement gives a bomb
TimeOf(b) == IF b.detonator_time > 0 /\ b.time_of_existence < DETONATOR_EXPIRATION_TIME
             THEN 100 ELSE b.explodes_in + b.detonator_time - b.time_of_existence

\* the bomb b contributes to tile p: p is its own tile, or lies on one of its
\* four axes within its flame length with only walkable tiles from the bomb
\* up to and including p
Contributes(b, p) ==
    \/ p = bomb_tile_of(b)
    \/ \E d \in 0..3, k \in 1..b.flame_length :
        /\ p = Step(bomb_tile_of(b), d, k)
        /\ \A j \in 1..k : tile_is_walkable(World, Step(bomb_tile_of(b), d, j))

\* the permutations of 1..n
Perms(n) == {f \in [1..n -> 1..n] : \A i, j \in 1..n : f[i] = f[j] => i = j}

\* the danger grid update_danger_map computes with the bomb list reordered by f
DangerMapOrdered(f) ==
    update_danger_map([World EXCEPT !.bombs = [i \in 1..Len(bombs) |-> bombs[f[i]]]],
                      update_danger_entry(World), 1).danger.map

\* a danger grid has just been recomputed for the present map
FreshDangerMap == probe.q = "asked" /\ ~probe.raised

\* C12: a freshly recomputed danger grid gives every tile the minimum of its
\* start value and the times of the bombs contributing to it, whatever the
\* order of the bomb list.
C12_DangerGrid ==
    FreshDangerMap =>
        /\ \A p \in Pos :
            danger.map[p] = SetMin({StartValue(tiles[p])}
                                   \cup {TimeOf(bombs[i]) : i \in {j \in 1..Len(bombs) : Contributes(bombs[j], p)}})
        /\ \A f \in Perms(Len(bombs)) : DangerMapOrdered(f) = danger.map

\* C12 witness: two bombs with different times contribute to one tile, which
\* has the smaller time
C12_Witness ==
    /\ FreshDangerMap
    /\ \E p \in Pos, i, j \in 1..Len(bombs) :
        /\ Contributes(bombs[i], p) /\ Contributes(bombs[j], p)
        /\ TimeOf(bombs[i]) < TimeOf(bombs[j])
        /\ danger.map[p] = TimeOf(bombs[i])

\* a detonator bomb counts as 100 in a fresh danger grid
C12_ReachDetonator ==
    /\ FreshDangerMap
    /\ \E i \in 1..Len(bombs) : bombs[i].detonator_time > 0 /\ danger.map[bomb_tile_of(bombs[i])] = 100

\* the tiles that receive a flame if the bomb b explodes in the present map
WouldBurn(b) ==
    {p \in Pos : Len(bomb_explodes(World, b, "fuse").tiles[p].flames) > Len(tiles[p].flames)}

\* C13: in a freshly recomputed danger grid, every non-Wall tile that would
\* receive a flame of a non-flying bomb has a danger value of at most that
\* bomb's time, also with other bombs on the flame line.
C13_NeverOverestimates ==
    FreshDangerMap =>
        \A i \in 1..Len(bombs) :
            bombs[i].movement # BOMB_FLYING =>
                \A p \in WouldBurn(bombs[i]) :
                    tiles[p].kind # TILE_WALL => danger.map[p] <= TimeOf(bombs[i])

(* --------------------- the bomb placement scenario --------------------- *)
\* the number of bombs after which player 0 of the placement scenario rests
MaxLaid == 3

\* the time from the start of the round after which it rests as well
PlaceUntil == 3200

\* player 0 stands or steps right on the open floor, presses Bomb alone or
\* with Right or with Special (before or after Bomb); player 1 stands
PlaceMenu ==
    LET pl == players[1]
        a == IF pl.state = STATE_DEAD \/ Len(notified) >= MaxLaid
                   \/ gm.time_from_start > PlaceUntil THEN {<<>>}
             ELSE {<<>>, <<ACTION_BOMB>>, <<ACTION_SPECIAL, ACTION_BOMB>>,
                   <<ACTION_BOMB, ACTION_SPECIAL>>}
                  \cup (IF pl.x < 1500 THEN {<<ACTION_RIGHT, ACTION_BOMB>>} ELSE {})
    IN  {<<x, <<>> >> : x \in a}

NextPlace ==
    \/ SimulationInputs(PlaceMenu, {MAX_DT})
    \/ MapUpdate({PlainRnd}, {})

SpecPlace == InitCauses /\ [][NextPlace]_vars

\* a step of the first half of simulation_step
IsReact == phase = "inputs" /\ phase' = "update"

\* the player pi raises the intent a in the step
Raises(pi, a) == \E j \in 1..Len(cur'.intents[pi]) : cur'.intents[pi][j] = a

\* the bomb objects of the list bs that lie, not flying, on tile t
LyingOn(bs, t) ==
    {bs[j].id : j \in {k \in 1..Len(bs) : bs[k].movement # BOMB_FLYING /\ bomb_tile_of(bs[k]) = t}}

\* the player pi reacts to its intents in the step, on a tile with a bomb
\* lying on it, and ends the step on that tile
ReactsOnBomb(pi) ==
    /\ IsReact
    /\ gm.state # STATE_WAITING_TO_PLAY
    /\ players[pi].state \notin {STATE_DEAD, STATE_IN_AIR, STATE_TELEPORTING}
    /\ LyingOn(bombs, player_tile_of(players[pi])) # {}
    /\ player_tile_of(players'[pi]) = player_tile_of(players[pi])

\* the bomb objects of player pi that the step created and left on the map
LaidInStep(pi) ==
    {j \in 1..Len(bombs') : bombs'[j].id > Len(notified) /\ bombs'[j].player = pi}

\* the bomb objects of player pi that exploded in the step
ExplodedInStep(pi) ==
    {j \in 1..Len(bombs) : bombs[j].player = pi /\ notified'[bombs[j].id] > notified[bombs[j].id]}

RollDts ==
    IF \E i \in 1..Len(bombs) : bombs[i].movement \notin {BOMB_NO_MOVEMENT, BOMB_FLYING}
    THEN {MAX_DT \div 2, MAX_DT} ELSE {MAX_DT}

\* the kick scenario with kicks to the left only: the bomb rolls along the
\* row towards the block
RollMenu ==
    {m \in KickMenu : \A j \in 1..Len(m[1]) : m[1][j] \notin {ACTION_UP, ACTION_DOWN}}

InitRoll ==
    \E start_items \in {<<ITEM_SHOE>>, <<ITEM_SHOE, ITEM_SPRING>>} :
        Constructed(GameMap(KickLayout, start_items, <<>>, TwoTeams, RowMajorRank, WallOffsetAtStart))

NextRoll ==
    \/ SimulationInputs(RollMenu, RollDts)
    \/ MapUpdate({PlainRnd}, {})

SpecRoll == InitRoll /\ [][NextRoll]_vars

\* the tile in front of the rolling bomb b
ForwardTile(b) ==
    <<bomb_tile_of(b)[1] + DirVec(b.movement)[1], bomb_tile_of(b)[2] + DirVec(b.movement)[2]>>

\* the bomb b rolls, is in its collision window, and its forward tile is
\* not walkable, or holds a player or a teleport
RollsIntoBlocked(b) ==
    /\ b.movement \in {BOMB_ROLLING_UP, BOMB_ROLLING_RIGHT, BOMB_ROLLING_DOWN, BOMB_ROLLING_LEFT}
    /\ RollChecksCollision(b.movement, b.x % Milli, b.y % Milli)
    /\ \/ ~tile_is_walkable(World, ForwardTile(b))
       \/ tile_has_player(World, ForwardTile(b))
       \/ tile_has_teleport(World, ForwardTile(b))

\* C15: a rolling bomb in its collision window whose forward tile is blocked
\* is, after the update, on the centre of the tile it was on, rolling the
\* opposite way if it has a spring and lying still otherwise; it is not on
\* the blocked forward tile.
C15_RollingStops ==
    [][IsMapUpdate =>
        \A i \in 1..Len(bombs) : \A j \in 1..Len(bombs') :
            (RollsIntoBlocked(bombs[i]) /\ bombs'[j].id = bombs[i].id)
                => /\ <<bombs'[j].x, bombs'[j].y>> = center_of(bombs[i].x, bombs[i].y)
                   /\ bombs'[j].movement = IF bombs[i].has_spring
                                           THEN OppositeRolling(bombs[i].movement)
                                           ELSE BOMB_NO_MOVEMENT
                   /\ bomb_tile_of(bombs'[j]) # ForwardTile(bombs[i])]_vars

(* ---------------------- the construction scenario ---------------------- *)
\* GameMap.letter_to_item
letter_to_item(letter) ==
    CASE letter = "f" -> ITEM_FLAME
      [] letter = "F" -> ITEM_SUPERFLAME
      [] letter = "b" -> ITEM_BOMB
      [] letter = "k" -> ITEM_SHOE
      [] letter = "s" -> ITEM_SPEEDUP
      [] letter = "p" -> ITEM_SPRING
      [] letter = "m" -> ITEM_MULTIBOMB
      [] letter = "d" -> ITEM_DISEASE
      [] letter = "r" -> ITEM_RANDOM
      [] letter = "x" -> ITEM_BOXING_GLOVE
      [] letter = "e" -> ITEM_DETONATOR
      [] letter = "t" -> ITEM_THROWING_GLOVE
      [] OTHER -> -1

\* the item codes of a string of item letters
ItemCodes(letters) == [k \in 1..Len(letters) |-> letter_to_item(letters[k])]

\* the characters of a layout as string_split[3] holds them, row after row
LayoutString(layout) == [k \in 1..(MapCols * MapRows) |-> layout[RowMajorRank[k]]]

\* the layout the loop over string_split[3] reads from a string of the
\* size of the map
LayoutOf(grid) == [p \in Pos |-> grid[RowMajor(p) + 1]]

\* the number of rows the loop over string_split[3] appends to self.tiles
\* (a new row at every i % MAP_SIZE.get_col() == 0)
RowsAppended(grid) == (Len(grid) + MapCols - 1) \div MapCols

\* GameMap.__init__ raises: random.choice(block_tiles) finds the list empty
\* (the only statement of the construction that can fail on these strings)
ConstructionRaises(grid, item_letters) ==
    Len(item_letters) > Cardinality({k \in 1..Len(grid) : grid[k] = "x"})

\* the tile characters the descriptions are made of: those the source tests
\* for, the floor character of the shipped maps, two digits and a letter
\* with no meaning
TileLetters == {"x", "#", ".", "u", "r", "d", "l", "U", "R", "D", "L",
                "A", "B", "T", "V", "0", "1", "z"}

\* the characters the map format gives a meaning
KnownTileLetters == TileLetters \ {"z"}
KnownItemLetters == {"f", "F", "b", "k", "s", "p", "m", "d", "r", "x", "e", "t"}

\* an open map with one block and no starting positions
PlainLayout == [p \in Pos |-> IF p = <<3, 0>> THEN "x" ELSE "."]

\* the longest map-items string of the descriptions
MaxItems == 3

\* the tile grids of the descriptions: a layout with one character
\* replaced, or with its last character missing, or with one more character
BuildGrids ==
    LET bases == {LayoutString(BlastLayout), LayoutString(PlainLayout)}
    IN  UNION {{[b EXCEPT ![i] = c] : i \in 1..Len(b), c \in TileLetters}
               \cup {SubSeq(b, 1, Len(b) - 1), Append(b, "."), Append(b, "x")} : b \in bases}

\* the map-items strings of the descriptions
BuildItems == UNION {[1..n -> {"f", "z"}] : n \in 0..MaxItems}

\* a description has been read, the map of the round before is still there
InitBuild ==
    \E w \in {GameMap(BlastLayout, <<>>, <<>>, TwoTeams, RowMajorRank, WallOffsetAtStart)} :
        /\ tiles = w.tiles
        /\ bombs = w.bombs
        /\ players = w.players
        /\ gm = w.gm
        /\ give = w.give
        /\ danger = w.danger
        /\ log = w.log
        /\ notified = w.notified
        /\ crashed = FALSE
        /\ phase = "inputs"
        /\ cur = [dt |-> 0, intents |-> <<>>]
        /\ ais = <<>>
        /\ \E grid \in BuildGrids, item_letters \in BuildItems :
                probe = [q |-> "description", grid |-> grid, items |-> item_letters]

\* GameMap(map_data, ...) is constructed from the description: probe records
\* whether the construction raised and how many rows of tiles it made; a map
\* of the size of the grid replaces the one before
Build ==
    /\ probe.q = "description"
    /\ probe' = [q |-> "built", grid |-> probe.grid, items |-> probe.items,
                 raised |-> ConstructionRaises(probe.grid, probe.items),
                 rows |-> RowsAppended(probe.grid),
                 count |-> Len(probe.grid)]
    /\ IF Len(probe.grid) = MapCols * MapRows
       THEN \E rank \in {RowMajorRank, ReverseRank} :
                Install(GameMap(LayoutOf(probe.grid), <<>>, ItemCodes(probe.items), TwoTeams,
                                rank, WallOffsetAtStart))
       ELSE /\ crashed' = ConstructionRaises(probe.grid, probe.items)
            /\ UNCHANGED <<tiles, bombs, players, gm, give, danger, log, notified>>
    /\ UNCHANGED <<phase, cur, ais>>

NextBuild == Build

SpecBuild == InitBuild /\ [][NextBuild]_vars

\* C16: a description whose tile grid has not exactly width x height
\* characters, or that holds an unrecognised tile letter or item letter,
\* ends in an error at construction.
C16_MalformedRaises ==
    (/\ probe.q = "built"
     /\ \/ probe.count # MapCols * MapRows
        \/ \E k \in 1..Len(probe.grid) : probe.grid[k] \notin KnownTileLetters
        \/ \E k \in 1..Len(probe.items) : probe.items[k] \notin KnownItemLetters)
        => probe.raised /\ crashed

\* the Block tiles of a tile grid
BlockCount(grid) == Cardinality({k \in 1..Len(grid) : ParseKind(grid[k]) = TILE_BLOCK})

\* C17: a construction whose map-items string holds more items than the grid
\* has Block tiles succeeds; the items lie on Block tiles only (a tile holds
\* one item at most) and the others are dropped.
C17_SurplusDropped ==
    (/\ probe.q = "built"
     /\ probe.count = MapCols * MapRows
     /\ Len(probe.items) > BlockCount(probe.grid))
        => /\ ~probe.raised /\ ~crashed
           /\ \A p \in Pos : tiles[p].item # NoObject => tiles[p].kind = TILE_BLOCK

\* the letters of the tile grids that are read back
RoundTripLetters == {"x", "#", ".", "u", "r", "d", "l", "U", "R", "D", "L", "A", "B", "T", "V"}

\* the character a tile kind and special object stand for in the map format
TileLetter(kind, special_object) ==
    CASE kind = TILE_WALL -> "#"
      [] kind = TILE_BLOCK /\ special_object = NoObject -> "x"
      [] kind = TILE_BLOCK /\ special_object = SPECIAL_OBJECT_ARROW_UP -> "U"
      [] kind = TILE_BLOCK /\ special_object = SPECIAL_OBJECT_ARROW_RIGHT -> "R"
      [] kind = TILE_BLOCK /\ special_object = SPECIAL_OBJECT_ARROW_DOWN -> "D"
      [] kind = TILE_BLOCK /\ special_object = SPECIAL_OBJECT_ARROW_LEFT -> "L"
      [] kind = TILE_FLOOR /\ special_object = SPECIAL_OBJECT_ARROW_UP -> "u"
      [] kind = TILE_FLOOR /\ special_object = SPECIAL_OBJECT_ARROW_RIGHT -> "r"
      [] kind = TILE_FLOOR /\ special_object = SPECIAL_OBJECT_ARROW_DOWN -> "d"
      [] kind = TILE_FLOOR /\ special_object = SPECIAL_OBJECT_ARROW_LEFT -> "l"
      [] kind = TILE_FLOOR /\ special_object = SPECIAL_OBJECT_TELEPORT_A -> "A"
      [] kind = TILE_FLOOR /\ special_object = SPECIAL_OBJECT_TELEPORT_B -> "B"
      [] kind = TILE_FLOOR /\ special_object = SPECIAL_OBJECT_TRAMPOLINE -> "T"
      [] kind = TILE_FLOOR /\ special_object = SPECIAL_OBJECT_LAVA -> "V"
      [] kind = TILE_FLOOR /\ special_object = NoObject -> "."
      [] OTHER -> "?"

\* C18: for a well-formed tile grid over the letters of the format (digits
\* apart), the kind and the special object of every tile of the constructed
\* map give back the character of the grid at that place: "x" and the
\* upper-case arrows are Block, "#" is Wall, the others Floor, and no two
\* letters are read back alike.
C18_RoundTrip ==
    (/\ probe.q = "built"
     /\ probe.count = MapCols * MapRows
     /\ ~probe.raised
     /\ \A k \in 1..Len(probe.grid) : probe.grid[k] \in RoundTripLetters)
        => \A p \in Pos :
            /\ TileLetter(tiles[p].kind, tiles[p].special_object) = probe.grid[RowMajor(p) + 1]
            /\ tiles[p].kind = (IF probe.grid[RowMajor(p) + 1] \in {"x", "U", "R", "D", "L"}
                                THEN TILE_BLOCK
                                ELSE IF probe.grid[RowMajor(p) + 1] = "#" THEN TILE_WALL
                                ELSE TILE_FLOOR)

(* ------------------- dead and absent-minded players -------------------- *)
\* the intent lists a player is offered in the claims about ignored input
AnyIntents ==
    {<<>>, <<ACTION_UP>>, <<ACTION_RIGHT>>, <<ACTION_DOWN>>, <<ACTION_LEFT>>,
     <<ACTION_BOMB>>, <<ACTION_SPECIAL>>, <<ACTION_BOMB, ACTION_BOMB_DOUBLE>>,
     <<ACTION_LEFT, ACTION_BOMB, ACTION_SPECIAL>>}

\* the frame lengths they are offered with
AnyDts == {1, MAX_DT \div 2, MAX_DT}

\* C19: a dead player stays dead under every react_to_inputs and every map
\* update, and react_to_inputs of a dead player, whatever the intents,
\* leaves its position, its items, its bombs_left and the bomb list (and
\* all the rest of the map) as they are.
C19_DeadIsAbsorbing ==
    /\ [][\A pi \in 1..Len(players) :
            players[pi].state = STATE_DEAD => players'[pi].state = STATE_DEAD]_vars
    /\ [](\A pi \in 1..Len(players) :
            players[pi].state = STATE_DEAD =>
                \A acts \in AnyIntents, dt \in AnyDts :
                    react_to_inputs(World, pi, acts, dt) = World)

\* C19 witness: the players have reacted to a frame of the running round
\* with a dead player among them and a living one beside it
C19_Witness ==
    /\ phase = "update"
    /\ gm.state = STATE_PLAYING
    /\ \E pi, pj \in 1..Len(players) :
        /\ players[pi].state = STATE_DEAD
        /\ players[pj].state # STATE_DEAD
        /\ Len(cur.intents[pj]) > 0

(* -------------------------- the jump scenario -------------------------- *)
\* player 0 next to a trampoline, player 1 next to a teleport whose other
\* end is in the middle of the map
JumpLayout ==
    [p \in Pos |->
        IF p = <<0, 0>> THEN "0"
        ELSE IF p = <<1, 0>> THEN "T"
        ELSE IF p = <<MapCols - 1, MapRows - 1>> THEN "1"
        ELSE IF p \in {<<MapCols - 2, MapRows - 1>>, <<2, 2>>} THEN "A"
        ELSE "."]

\* each player walks from its start onto the tile beside it (player 0 to the
\* right, player 1 to the left) and stands once it has come down elsewhere;
\* while it is in the air or teleporting it presses keys or not
JumpMenu ==
    LET opt(i) ==
            LET pl == players[i]
                towards == IF pl.number = 0 THEN ACTION_RIGHT ELSE ACTION_LEFT
            IN  IF pl.state = STATE_DEAD THEN {<<>>}
                ELSE IF pl.state \in {STATE_IN_AIR, STATE_TELEPORTING}
                     THEN {<<>>, <<towards, ACTION_BOMB>>}
                ELSE IF JumpLayout[player_tile_of(pl)] # "." THEN {<<towards>>}
                ELSE {<<>>}
    IN  {f \in [1..Len(players) -> {<<>>, <<ACTION_RIGHT>>, <<ACTION_LEFT>>,
                                    <<ACTION_RIGHT, ACTION_BOMB>>, <<ACTION_LEFT, ACTION_BOMB>>}] :
            \A i \in 1..Len(players) : f[i] \in opt(i)}

InitJump ==
    \E start_items \in {<<>>, <<ITEM_DISEASE>>} :
        Constructed(GameMap(JumpLayout, start_items, <<>>, TwoTeams, RowMajorRank, WallOffsetAtStart))

NextJump ==
    \/ SimulationInputs(JumpMenu, {MAX_DT})
    \/ MapUpdate({PlainRnd}, {})

SpecJump == InitJump /\ [][NextJump]_vars

\* C20: react_to_inputs of a living player while the round is WaitingToPlay
\* changes nothing, and react_to_inputs of a player that is InAir
\* (Teleporting) with state_time + dt below 2000 ms (1500 ms) changes nothing
\* but state_time, which grows by dt, whatever the intents: no move, no
\* change of the facing state, no bomb laid, thrown, kicked or fired, the
\* disease timer as it was.
C20_InputIgnored ==
    \A pi \in 1..Len(players) : \A acts \in AnyIntents, dt \in AnyDts :
        /\ (players[pi].state # STATE_DEAD /\ gm.state = STATE_WAITING_TO_PLAY)
                => react_to_inputs(World, pi, acts, dt) = World
        /\ (/\ gm.state # STATE_WAITING_TO_PLAY
            /\ \/ players[pi].state = STATE_IN_AIR /\ players[pi].state_time + dt < 2000
               \/ players[pi].state = STATE_TELEPORTING /\ players[pi].state_time + dt < 1500)
                => react_to_inputs(World, pi, acts, dt)
                        = [World EXCEPT !.players[pi].state_time = @ + dt]

\* C20 witness: a player with a disease has reacted, in the air, to a frame
\* in which it pressed keys
C20_Witness ==
    /\ phase = "update"
    /\ \E pi \in 1..Len(players) :
        /\ players[pi].state = STATE_IN_AIR
        /\ players[pi].state_time > 0
        /\ players[pi].disease # DISEASE_NONE
        /\ Len(cur.intents[pi]) > 0

\* the same was reached by a teleporting player, and by one in a round that
\* waits to be played
C20_ReachTeleporting ==
    /\ phase = "update"
    /\ \E pi \in 1..Len(players) :
        /\ players[pi].state = STATE_TELEPORTING
        /\ players[pi].state_time > 0
        /\ Len(cur.intents[pi]) > 0

C20_ReachWaiting ==
    /\ phase = "update"
    /\ gm.state = STATE_WAITING_TO_PLAY
    /\ \E pi \in 1..Len(players) : Len(cur.intents[pi]) > 0

(* -------------------------- the chain scenario ------------------------- *)
\* open floor, player 0 in the middle of the upper row
ChainLayout ==
    [p \in Pos |->
        IF p = <<3, 0>> THEN "0"
        ELSE IF p = <<MapCols - 1, MapRows - 1>> THEN "1"
        ELSE "."]

\* player 0 walks left to the corner and lays bombs on the way; player 1
\* stands
ChainMenu ==
    LET pl == players[1]
        a == IF pl.state = STATE_DEAD \/ pl.x <= 500 THEN {<<>>}
             ELSE {<<ACTION_LEFT>>}
                    \cup (IF pl.bombs_left > 0 THEN {<<ACTION_LEFT, ACTION_BOMB>>} ELSE {})
    IN  {<<x, <<>> >> : x \in a}

InitChain ==
    Constructed(GameMap(ChainLayout, <<ITEM_BOMB, ITEM_BOMB>>, <<>>, TwoTeams, RowMajorRank,
                        WallOffsetAtStart))

NextChain ==
    \/ SimulationInputs(ChainMenu, {MAX_DT})
    \/ MapUpdate({PlainRnd}, {})

SpecChain == InitChain /\ [][NextChain]_vars

\* the tiles that an explosion of the step put a flame on
FlameReceived == UNION {log'[k].gained : k \in (Len(log) + 1)..Len(log')}

\* C21: at the end of an update no bomb that is not flying lies on a tile
\* that received a flame from an explosion of that update and still carries
\* a flame, wherever the tile lies from the exploding bomb.
C21_ChainReaction ==
    [][IsMapUpdate =>
        \A p \in FlameReceived :
            Len(tiles'[p].flames) > 0 => LyingOn(bombs', p) = {}]_vars

(* -------------------------- the throw scenario ------------------------- *)
\* the tile a bomb thrown to the right from ThrowFrom comes down on: four
\* tiles further, around the edge of the map
ThrowFrom == <<2, 1>>
ThrowOnto == <<(ThrowFrom[1] + 4) % MapCols, 1>>

\* player 0 starts one tile left of ThrowFrom; the landing tile holds `what`
ThrowLayout(what) ==
    [p \in Pos |->
        IF p = <<ThrowFrom[1] - 1, 1>> THEN "0"
        ELSE IF p = ThrowOnto THEN what
        ELSE IF p = <<MapCols - 1, MapRows - 1>> THEN (IF what = "1" THEN "." ELSE "1")
        ELSE IF p = <<3, MapRows - 1>> /\ what = "A" THEN "A"
        ELSE "."]

\* player 0 steps right onto ThrowFrom, lays a bomb there and throws it;
\* player 1 stands
ThrowMenu ==
    LET pl == players[1]
        a == IF pl.state = STATE_DEAD THEN {<<>>}
             ELSE IF Len(notified) = 0
             THEN IF player_tile_of(pl) # ThrowFrom THEN {<<ACTION_RIGHT>>} ELSE {<<ACTION_BOMB>>}
             ELSE IF LyingOn(bombs, player_tile_of(pl)) # {} /\ ~pl.wait_for_bomb_release
             THEN {<<ACTION_BOMB_DOUBLE>>}
             ELSE {<<>>}
    IN  {<<x, <<>> >> : x \in a}

InitThrow ==
    \E what \in {".", "1", "A", "#", "x"} :
        Constructed(GameMap(ThrowLayout(what), <<ITEM_THROWING_GLOVE>>, <<>>, TwoTeams,
                            RowMajorRank, WallOffsetAtStart))

NextThrow ==
    \/ SimulationInputs(ThrowMenu, {MAX_DT})
    \/ MapUpdate({PlainRnd}, {})

SpecThrow == InitThrow /\ [][NextThrow]_vars

\* the bomb object id was flying before the step and lies still after it
Landed(id) ==
    /\ \E i \in 1..Len(bombs) : bombs[i].id = id /\ bombs[i].movement = BOMB_FLYING
    /\ \E j \in 1..Len(bombs') : bombs'[j].id = id /\ bombs'[j].movement = BOMB_NO_MOVEMENT

\* C22: a flying bomb comes to rest in an update only on a tile that is
\* walkable, holds no player and has no teleport; so no bomb becomes
\* stationary on a tile with a player, a teleport, a wall or an intact block.
C22_LandsOnFreeTile ==
    [][IsMapUpdate =>
        \A j \in 1..Len(bombs') :
            Landed(bombs'[j].id) =>
                LET t == bomb_tile_of(bombs'[j])
                IN  /\ tile_is_walkable(World, t)
                    /\ ~tile_has_player(World, t)
                    /\ ~tile_has_teleport(World, t)]_vars

\* a flame whose remaining time has not dropped below 0
StillBurns(f) == f.time_to_burnout >= 0

\* the flames fs after each of them has burnt for dt once
BurntFor(fs, dt) ==
    SelectSeq([i \in 1..Len(fs) |-> [fs[i] EXCEPT !.time_to_burnout = @ - dt]], StillBurns)

\* the tiles that an explosion recorded in the step's log put a flame on
Relit == UNION {log'[k].gained : k \in 1..Len(log')}

\* C23: in an update every flame of every tile burns for dt exactly once and
\* is removed when its remaining time drops below 0, also when an earlier
\* flame of the same tile is removed in the same update (stated for the tiles
\* that take no new flame in the step).
C23_EveryFlameBurnsOnce ==
    [][IsMapUpdate =>
        \A p \in Pos \ Relit : tiles'[p].flames = BurntFor(tiles[p].flames, cur.dt)]_vars

\* C24: the items of a player that died at map time t are spread, and the
\* entry removed, in the first update whose time_from_start is >= t + 3000:
\* after an update no entry is left whose delay has passed on the map clock.
C24_GivenAwayWhenDue ==
    \A i \in 1..Len(give) : gm.time_from_start < give[i].since + GIVE_AWAY_DELAY

(* -------------------------- the blame scenario ------------------------- *)
\* player 0 in the upper row, player 1 below it with lava on its left
BlameLayout ==
    [p \in Pos |->
        IF p = <<3, 0>> THEN "0"
        ELSE IF p = <<2, 1>> THEN "1"
        ELSE IF p = <<1, 1>> THEN "V"
        ELSE "."]

\* player 0 walks left and lays bombs as in the chain scenario; player 1
\* stands or, in the first moments of play, sets off into the lava
BlameMenu ==
    LET pl == players[2]
        b == IF pl.state = STATE_DEAD THEN {<<>>}
             ELSE IF pl.x % Milli # 500 THEN {<<ACTION_LEFT>>}
             ELSE IF gm.time_from_start < START_GAME_AFTER + 300 THEN {<<>>, <<ACTION_LEFT>>}
             ELSE {<<>>}
    IN  {<<m[1], x>> : m \in ChainMenu, x \in b}

InitBlame ==
    Constructed(GameMap(BlameLayout, <<ITEM_BOMB, ITEM_BOMB>>, <<>>, TwoTeams, RowMajorRank,
                        WallOffsetAtStart))

NextBlame ==
    \/ SimulationInputs(BlameMenu, {MAX_DT})
    \/ MapUpdate({PlainRnd}, {})

SpecBlame == InitBlame /\ [][NextBlame]_vars

\* the player at index pi is alive before the step and dead after it
KilledInStep(pi) == players[pi].state # STATE_DEAD /\ players'[pi].state = STATE_DEAD

\* what the flames fs owe the player at index q for the death of pi: +1 for
\* each flame of q if q is not pi, -1 for each if it is
Owed(fs, q, pi) ==
    LET F[j \in 0..Len(fs)] ==
            IF j = 0 THEN 0
            ELSE F[j - 1] + (IF fs[j].player # q THEN 0 ELSE IF q # pi THEN 1 ELSE -1)
    IN  F[Len(fs)]

\* what the deaths of the step owe the player at index q
OwedInStep(q) ==
    LET G[pi \in 0..Len(players)] ==
            IF pi = 0 THEN 0
            ELSE G[pi - 1] + (IF KilledInStep(pi)
                              THEN Owed(tiles'[player_tile_of(players'[pi])].flames, q, pi)
                              ELSE 0)
    IN  G[Len(players)]

\* C25: when a living player P is killed in an update, each flame on its tile
\* changes its owner's kill count by +1 (owner not P) or -1 (owner P) and no
\* other kill count changes: a death by lava alone changes none, a player that
\* is dead already is attributed nothing, and input steps change no count.
C25_KillsFollowFlames ==
    [][/\ IsMapUpdate => \A q \in 1..Len(players) :
                            players'[q].kills = players[q].kills + OwedInStep(q)
       /\ IsReact => \A q \in 1..Len(players) : players'[q].kills = players[q].kills]_vars

\* C25 witness: player 1 died in the flame of a bomb of player 0, which
\* lives and has one kill
C25_Witness ==
    /\ players[2].state = STATE_DEAD
    /\ players[1].state # STATE_DEAD
    /\ players[1].kills = 1

\* a player has killed itself on a tile with two flames of its own
C25_ReachSelfKill == \E q \in 1..Len(players) : players[q].kills = -2

\* a player has died in the lava with no flame on the tile
C25_ReachLava ==
    \E q \in 1..Len(players) :
        /\ players[q].state = STATE_DEAD
        /\ tile_has_lava(World, player_tile_of(players[q]))

(* ------------------------ the detonator scenario ----------------------- *)
\* the map time after which no key is pressed in the detonator scenario
FireUntil == 4400

\* player 0 walks left along the upper row, lays bombs and presses Special
\* on the way; in the corner it stands and, while it tracks a bomb, presses
\* Special or not
FireMenu ==
    LET pl == players[1]
        a == IF pl.state = STATE_DEAD \/ gm.time_from_start > FireUntil THEN {<<>>}
             ELSE IF pl.x <= 500
             THEN IF Len(pl.detonator_bombs) = 0 THEN {<<>>}
                  ELSE {<<>>, <<ACTION_SPECIAL>>, <<ACTION_SPECIAL, ACTION_SPECIAL>>}
             ELSE {<<ACTION_LEFT>>, <<ACTION_LEFT, ACTION_SPECIAL>>}
                    \cup (IF pl.bombs_left > 0 THEN {<<ACTION_LEFT, ACTION_BOMB>>} ELSE {})
    IN  {<<x, <<>> >> : x \in a}

\* open floor, player 0 in the fifth column of the upper row
FireLayout ==
    [p \in Pos |->
        IF p = <<4, 0>> THEN "0"
        ELSE IF p = <<MapCols - 1, MapRows - 1>> THEN "1"
        ELSE "."]

InitFire ==
    Constructed(GameMap(FireLayout, <<ITEM_BOMB, ITEM_DETONATOR>>, <<>>, TwoTeams, RowMajorRank,
                        WallOffsetAtStart))

NextFire ==
    \/ SimulationInputs(FireMenu, {MAX_DT})
    \/ MapUpdate({PlainRnd}, {})

SpecFire == InitFire /\ [][NextFire]_vars

\* the bombs of the player pi that its detonator fired in the step
Fired(pi) ==
    {log'[k].id : k \in {n \in 1..Len(log') :
        /\ log'[n].cause = "detonator"
        /\ \E j \in 1..Len(bombs) : bombs[j].id = log'[n].id /\ bombs[j].player = pi}}

\* the tracked bombs of the player pi that can be fired: on the map (not
\* exploded), with a live detonator, not flying
Live(pi) ==
    {n \in 1..Len(players[pi].detonator_bombs) :
        \E j \in 1..Len(bombs) :
            /\ bombs[j].id = players[pi].detonator_bombs[n]
            /\ has_detonator(bombs[j])
            /\ bombs[j].movement # BOMB_FLYING}

\* C26: a tick fires at most one bomb of a player by its detonator, only if
\* the tick holds a Special intent and the key is not being held since an
\* earlier firing, and the bomb is the most recently laid tracked bomb that
\* can be fired; a firing marks the key as held, the mark stays while every
\* tick holds Special, and no update clears it.
C26_OnePerKeyEdge ==
    [][\A pi \in 1..Len(players) :
        /\ IsReact =>
            /\ Cardinality(Fired(pi)) <= 1
            /\ Fired(pi) # {} =>
                /\ Raises(pi, ACTION_SPECIAL)
                /\ ~players[pi].wait_for_special_release
                /\ Live(pi) # {}
                /\ Fired(pi) = {players[pi].detonator_bombs[CHOOSE n \in Live(pi) :
                                                               \A m \in Live(pi) : m <= n]}
            /\ (Raises(pi, ACTION_SPECIAL)
                    /\ (Fired(pi) # {} \/ players[pi].wait_for_special_release))
                => players'[pi].wait_for_special_release
        /\ IsMapUpdate =>
            players'[pi].wait_for_special_release = players[pi].wait_for_special_release]_vars

\* C26 witness: Special is held in the tick after a firing, a second tracked
\* bomb could be fired, and nothing is fired
C26_Witness ==
    /\ phase = "update"
    /\ \E j \in 1..Len(cur.intents[1]) : cur.intents[1][j] = ACTION_SPECIAL
    /\ players[1].wait_for_special_release
    /\ log = <<>>
    /\ Live(1) # {}

\* a bomb was fired while an older tracked bomb could be fired too
C26_ReachFiredNewest ==
    /\ phase = "update"
    /\ \E k \in 1..Len(log) : log[k].cause = "detonator"
    /\ Live(1) # {}

\* the player is in the air or teleporting
InFlight(pl) == pl.state \in {STATE_IN_AIR, STATE_TELEPORTING}

\* the tile the flight of the player goes to
FlightDestination(pl) == IF pl.state = STATE_IN_AIR THEN pl.jumping_to ELSE pl.teleporting_to

C27_ReachTeleportEnd ==
    \E pi \in 1..Len(players) :
        /\ players[pi].state = STATE_TELEPORTING
        /\ players[pi].state_time + MAX_DT >= TELEPORT_DURATION
        /\ phase = "inputs"

\* a player has come down: it stands, not in flight, on the tile it jumped to
C27_ReachLanded ==
    \E pi \in 1..Len(players) :
        /\ ~InFlight(players[pi]) /\ players[pi].state # STATE_DEAD
        /\ JumpLayout[player_tile_of(players[pi])] = "."
        /\ cur.dt > 0

(* ------------------------ the walled-in scenario ----------------------- *)
\* player 0 in the first column of row r beside a trampoline, walls all
\* around; player 1 more than three tiles away from the trampoline
WalledLayout(r) ==
    [p \in Pos |->
        IF p = <<0, r>> THEN "0"
        ELSE IF p = <<1, r>> THEN "T"
        ELSE IF p = <<MapCols - 1, 0>> THEN "1"
        ELSE "#"]

\* player 0 lays a bomb on its start tile or not, then walks right onto the
\* trampoline and presses nothing more; player 1 stands
WalledMenu ==
    LET pl == players[1]
        a == IF pl.state = STATE_DEAD \/ pl.state = STATE_IN_AIR THEN {<<>>}
             ELSE IF pl.x = 500 /\ Len(notified) = 0 THEN {<<ACTION_BOMB>>, <<ACTION_RIGHT>>}
             ELSE IF pl.x < 1500 THEN {<<ACTION_RIGHT>>}
             ELSE {<<>>}
    IN  {<<x, <<>> >> : x \in a}

InitWalled ==
    \E r \in {1, MapRows - 1} :
        Constructed(GameMap(WalledLayout(r), <<>>, <<>>, TwoTeams, RowMajorRank, WallOffsetAtStart))

NextWalled ==
    \/ SimulationInputs(WalledMenu, {MAX_DT})
    \/ MapUpdate({PlainRnd}, {})

SpecWalled == InitWalled /\ [][NextWalled]_vars

\* C28: a jump that finds no landing tile within three tiles goes to an
\* adjacent tile inside the map, and no update or input step raises an error
\* because of it.
C28_FallbackInsideMap ==
    /\ ~crashed
    /\ \A pi \in 1..Len(players) :
          players[pi].state = STATE_IN_AIR => tile_is_withing_map(players[pi].jumping_to)

(* -------------------------------- AI ---------------------------------- *)
REPEAT_ACTIONS == <<100, 300>>

\* AI(player, game_map) for the player at index pi; decided_at is history:
\* the map time of the last recomputation of play(), -1 before the first
NewAI(pi) ==
    [player |-> pi, outputs |-> <<>>, recompute_compute_actions_on |-> 0,
     didnt_move_since |-> 0, decided_at |-> -1]

\* the four directions in the order up, right, down, left
Directions == <<ACTION_UP, ACTION_RIGHT, ACTION_DOWN, ACTION_LEFT>>
tile_increment == <<<<0, -1>>, <<1, 0>>, <<0, 1>>, <<-1, 0>>>>
perpendicular_directions == <<<<1, 0>>, <<0, 1>>, <<1, 0>>, <<0, 1>>>>

\* get_danger_value(t) read from the danger map dm
DangerIn(dm, t) == IF ~tile_is_withing_map(t) THEN 0 ELSE dm[t]

\* AI.tile_is_escapable
tile_is_escapable(w, t) ==
    IF ~tile_is_walkable(w, t) \/ tile_has_flame(w, t) THEN FALSE
    ELSE w.tiles[t].special_object # SPECIAL_OBJECT_LAVA

\* the i-th tile from t in the direction number d (1..4)
AxisTile(t, d, i) == <<t[1] + i * tile_increment[d][1], t[2] + i * tile_increment[d][2]>>

\* rate_bomb_escape_directions: how far the loop over i gets in direction d
\* before it breaks
AxisReach(w, t, d, flame_length) ==
    LET F[i \in 0..(flame_length + 1)] ==
            IF i = 0 THEN 0
            ELSE IF F[i - 1] = i - 1 /\ tile_is_escapable(w, AxisTile(t, d, i)) THEN i
            ELSE F[i - 1]
    IN  F[flame_length + 1]

\* rate_bomb_escape_directions: what the i-th axis tile adds in direction d
AxisGain(w, dm, t, d, i, flame_length) ==
    LET axis_tile == AxisTile(t, d, i)
        p == perpendicular_directions[d]
        perpendicular_tile1 == <<axis_tile[1] + p[1], axis_tile[2] + p[2]>>
        perpendicular_tile2 == <<axis_tile[1] - p[1], axis_tile[2] - p[2]>>
        safe(q) == tile_is_escapable(w, q) /\ DangerIn(dm, q) >= SAFE_DANGER_VALUE
    IN  (IF i > flame_length /\ DangerIn(dm, axis_tile) >= SAFE_DANGER_VALUE THEN 1 ELSE 0)
        + (IF safe(perpendicular_tile1) THEN 1 ELSE 0)
        + (IF safe(perpendicular_tile2) THEN 1 ELSE 0)

\* AI.rate_bomb_escape_directions for the player pl, as <<up, right, down, left>>
rate_bomb_escape_directions(w, dm, pl, t) ==
    [d \in 1..4 |->
        LET G[i \in 0..(pl.flame_length + 1)] ==
                IF i = 0 THEN 0
                ELSE IF i <= AxisReach(w, t, d, pl.flame_length)
                     THEN G[i - 1] + AxisGain(w, dm, t, d, i, pl.flame_length)
                     ELSE G[i - 1]
        IN  G[pl.flame_length + 1]]

\* rate_bomb_escape_directions asks get_danger_value at least once
RatingAsks(w, pl, t) ==
    \E d \in 1..4 : \E i \in 1..AxisReach(w, t, d, pl.flame_length) :
        LET axis_tile == AxisTile(t, d, i)
            p == perpendicular_directions[d]
        IN  \/ i > pl.flame_length
            \/ tile_is_escapable(w, <<axis_tile[1] + p[1], axis_tile[2] + p[2]>>)
            \/ tile_is_escapable(w, <<axis_tile[1] - p[1], axis_tile[2] - p[2]>>)

\* max(escape_direction_ratings)
MaxRating(r) == Max(Max(r[1], r[2]), Max(r[3], r[4]))

\* AI.is_trapped
is_trapped(w, pl) ==
    \A d \in 1..4 : ~tile_is_walkable(w, AxisTile(player_tile_of(pl), d, 1))

\* AI.rate_tile
rate_tile(w, dm, pl, t) ==
    LET d == DangerIn(dm, t)
        base == IF d < 1000 THEN 20 ELSE IF d < 2500 THEN 40 ELSE 60
        item == w.tiles[t].item
        for_item == IF item = NoObject THEN 0 ELSE IF item # ITEM_DISEASE THEN 20 ELSE -10
        near_lava == \E k \in 1..4 : tile_has_lava(w, AxisTile(t, k, 1))
    IN  IF d = 0 THEN 0
        ELSE base + for_item + (IF near_lava THEN -5 ELSE 0)
                  + (IF tile_has_bomb(w, t) /\ ~pl.has_boxing_glove THEN -5 ELSE 0)

\* AI.decide_general_direction
decide_general_direction(w, pi) ==
    LET me == w.players[pi]
        enemies == {q \in 1..Len(w.players) :
                        w.players[q].team_number # me.team_number /\ w.players[q].state # STATE_DEAD}
        other == IF enemies = {} THEN me
                 ELSE w.players[CHOOSE q \in enemies : \A r \in enemies : q <= r]
        dx == player_tile_of(other)[1] - player_tile_of(me)[1]
        dy == player_tile_of(other)[2] - player_tile_of(me)[2]
    IN  <<Min(Max(-1, dx), 1), Min(Max(-1, dy), 1)>>

\* play: the score of moving in direction d from the tile t
DirectionScore(w, dm, pi, t, d) ==
    LET general_direction == decide_general_direction(w, pi)
    IN  rate_tile(w, dm, w.players[pi], AxisTile(t, d, 1))
        + (IF tile_increment[d][1] = general_direction[1] THEN 2 ELSE 0)
        + (IF tile_increment[d][2] = general_direction[2] THEN 2 ELSE 0)

\* None for the movement action
NoAction == -1

\* play: best_direction_actions, the candidates (None first) with the
\* greatest score, in the order they were met
best_direction_actions(w, dm, pi, t) ==
    LET score == [k \in 0..4 |-> IF k = 0 THEN rate_tile(w, dm, w.players[pi], t)
                                 ELSE DirectionScore(w, dm, pi, t, k)]
        top == {k \in 0..4 : \A j \in 0..4 : score[j] <= score[k]}
        F[k \in -1..4] ==
            IF k = -1 THEN <<>>
            ELSE IF k \in top THEN Append(F[k - 1], IF k = 0 THEN NoAction ELSE Directions[k])
            ELSE F[k - 1]
    IN  F[4]

\* random.choice(list) when the draw is pick
PickFrom(list, pick) == list[1 + (pick % Len(list))]

\* play: the way to escape from a bomb under the player: the first direction
\* with the greatest rating
best_action(r) ==
    Directions[CHOOSE d \in 1..4 : /\ \A j \in 1..4 : r[j] <= r[d]
                                   /\ \A j \in 1..(d - 1) : r[j] < r[d]]

\* Player.get_multibomb_count
get_multibomb_count(pl) ==
    IF ~pl.has_multibomb THEN (IF pl.bombs_left > 0 THEN 1 ELSE 0) ELSE pl.bombs_left

\* Player.get_direction_number
get_direction_number(pl) ==
    CASE pl.state \in {STATE_IDLE_UP, STATE_WALKING_UP} -> 0
      [] pl.state \in {STATE_IDLE_RIGHT, STATE_WALKING_RIGHT} -> 1
      [] pl.state \in {STATE_IDLE_DOWN, STATE_WALKING_DOWN} -> 2
      [] OTHER -> 3

\* AI.should_lay_multibomb
should_lay_multibomb(w, dm, pl, movement_action) ==
    LET current_tile == player_tile_of(pl)
        player_direction == IF movement_action # NoAction THEN movement_action
                            ELSE get_direction_number(pl)
        r == rate_bomb_escape_directions(w, dm, pl, current_tile)
        left == [d \in 1..4 |-> IF d = player_direction + 1 THEN 0 ELSE r[d]]
        dv == get_direction_vector(pl)
        at(i) == <<current_tile[1] + i * dv[1], current_tile[2] + i * dv[2]>>
        count == get_multibomb_count(pl)
        \* the tiles the loop looks at before it breaks
        seen == {i \in 0..(count - 1) : \A j \in 0..i : tile_is_walkable(w, at(j))}
    IN  IF pl.has_throwing_glove THEN FALSE
        ELSE IF count <= 1 THEN FALSE
        ELSE IF MaxRating(left) = 0 THEN FALSE
        ELSE \A i \in seen : ~(DangerIn(dm, at(i)) < 3000 \/ tile_has_lava(w, at(i)))

\* a plausible slip of MayLayBomb: the escape ratings are not looked at
MayLayBomb_no_escape_test(pl, danger_here, r) ==
    /\ pl.bombs_left > 0
    /\ (pl.has_throwing_glove \/ danger_here > 2000)

\* play: the test of "should I lay bomb?", for a tile without a bomb
MayLayBomb(pl, danger_here, r) ==
    /\ pl.bombs_left > 0
    /\ (pl.has_throwing_glove \/ (danger_here > 2000 /\ MaxRating(r) > 0))

\* a plausible slip of RepeatUntil: a laid bomb does not hasten the next decision
RepeatUntil_always_random(current_time, bomb_laid, delay) == current_time + delay

\* play: the map time from which the actions are computed anew
RepeatUntil(current_time, bomb_laid, delay) ==
    IF bomb_laid THEN current_time + 10 ELSE current_time + delay

\* play, the bomb decisions and what follows, given the movement decided:
\* moves is what was appended for it, since the new didnt_move_since
decide_bombs(w, dm, ai, rnd, trapped, r, on_bomb, moves, since) ==
    LET pl == w.players[ai.player]
        current_time == w.gm.time_from_start
        current_tile == player_tile_of(pl)
        forced == current_time - since > 10000
        movement_action == IF forced THEN Directions[rnd.spin]
                           ELSE IF moves = <<>> THEN NoAction ELSE moves[1]
        throws == on_bomb /\ pl.has_throwing_glove /\ MaxRating(r) = 0
        bomb_laid == ~on_bomb /\ MayLayBomb(pl, DangerIn(dm, current_tile), r) /\ rnd.lay
        bomb_action == IF rnd.multi /\ should_lay_multibomb(w, dm, pl, movement_action)
                       THEN ACTION_BOMB_DOUBLE ELSE ACTION_BOMB
        boxes == /\ pl.has_boxing_glove /\ Len(pl.detonator_bombs) = 0
                 /\ (trapped \/ tile_has_bomb(w, get_forward_tile_position(pl)))
        fires == /\ Len(pl.detonator_bombs) > 0
                 /\ rnd.fire /\ DangerIn(dm, current_tile) >= SAFE_DANGER_VALUE
    IN  [ai |-> [ai EXCEPT
                    !.outputs = moves
                                \o (IF forced THEN <<Directions[rnd.spin]>> ELSE <<>>)
                                \o (IF throws THEN <<ACTION_BOMB_DOUBLE>> ELSE <<>>)
                                \o (IF bomb_laid THEN <<bomb_action>> ELSE <<>>)
                                \o (IF boxes THEN <<ACTION_SPECIAL>> ELSE <<>>)
                                \o (IF fires THEN <<ACTION_SPECIAL>> ELSE <<>>),
                    !.didnt_move_since = since,
                    !.recompute_compute_actions_on = RepeatUntil(current_time, bomb_laid, rnd.delay),
                    !.decided_at = current_time],
         asked |-> \/ RatingAsks(w, pl, current_tile)
                   \/ (~trapped /\ ~on_bomb)
                   \/ (~on_bomb /\ pl.bombs_left > 0 /\ ~pl.has_throwing_glove)
                   \/ (Len(pl.detonator_bombs) > 0 /\ rnd.fire)]

\* play, from the movement action chosen (None: NoAction) on
decide_after_movement(w, dm, ai, rnd, trapped, r, on_bomb, chosen) ==
    decide_bombs(w, dm, ai, rnd, trapped, r, on_bomb,
                 IF chosen = NoAction THEN <<>>
                 ELSE IF w.players[ai.player].disease = DISEASE_REVERSE_CONTROLS
                      THEN <<get_opposite_action(chosen)>>
                 ELSE <<chosen>>,
                 IF chosen = NoAction THEN ai.didnt_move_since ELSE w.gm.time_from_start)

\* play, the movement decision, given whether the player is trapped, the
\* escape ratings r of its tile and whether the tile has a bomb
decide_movement(w, dm, ai, rnd, trapped, r, on_bomb) ==
    decide_after_movement(w, dm, ai, rnd, trapped, r, on_bomb,
        IF trapped THEN Directions[rnd.spin]
        ELSE IF on_bomb THEN best_action(r)
        ELSE PickFrom(best_direction_actions(w, dm, ai.player, player_tile_of(w.players[ai.player])),
                      rnd.pick))

\* AI.play, the decisions, once the danger map is dm.  rnd holds the random
\* draws: spin (the direction of a trapped or a stuck player), pick (the
\* index random.choice takes), lay and multi and fire (whether the randint
\* drawn is 0) and delay.  The result holds the new AI object and asked:
\* get_danger_value was called.
decide(w, dm, ai, rnd) ==
    decide_movement(w, dm, ai, rnd,
                    is_trapped(w, w.players[ai.player]),
                    rate_bomb_escape_directions(w, dm, w.players[ai.player],
                                                player_tile_of(w.players[ai.player])),
                    tile_has_bomb(w, player_tile_of(w.players[ai.player])))

\* play: "only repeat actions"
RepeatsActions(w, ai) ==
    \/ w.gm.time_from_start < ai.recompute_compute_actions_on
    \/ w.players[ai.player].state \in {STATE_IN_AIR, STATE_TELEPORTING}

\* play after the decisions dec: the call raised if get_danger_value was
\* called and raised
after_decision(w, d, dec) ==
    IF dec.asked /\ d.raised THEN [w |-> Raise(w), ai |-> dec.ai, out |-> <<>>]
    ELSE [w |-> IF dec.asked THEN d.w ELSE w, ai |-> dec.ai, out |-> dec.ai.outputs]

\* AI.play() of the AI object ai (do_nothing is a debugging switch that is
\* never set); d is what get_danger_value gives for the player's tile in w.
\* The result holds the world and the AI object after the call and the
\* list returned.
play(w, d, ai, rnd) ==
    IF w.players[ai.player].state = STATE_DEAD THEN [w |-> w, ai |-> ai, out |-> <<>>]
    ELSE IF RepeatsActions(w, ai) THEN [w |-> w, ai |-> ai, out |-> ai.outputs]
    ELSE after_decision(w, d, decide(w, d.w.danger.map, ai, rnd))

\* play() of the k-th AI done with the result r: its list is added to the
\* actions being performed
played(acc, k, r) ==
    [w |-> r.w,
     ais |-> [acc.ais EXCEPT ![k] = r.ai],
     out |-> [acc.out EXCEPT ![acc.ais[k].player] = @ \o r.out]]

\* for i in range(len(self.ais)): actions_being_performed + self.ais[i].play()
RECURSIVE play_all(_, _, _)
play_all(acc, k, rnd) ==
    IF k > Len(acc.ais) \/ acc.w.err THEN acc
    ELSE play_all(played(acc, k,
                         play(acc.w,
                              get_danger_value(acc.w, player_tile_of(acc.w.players[acc.ais[k].player])),
                              acc.ais[k], rnd)),
                  k + 1, rnd)

\* Game.simulation_step, first half, with AI players: the intents of the
\* frame are those of the keys (Menu) followed by what each AI's play()
\* returns; Rnds are the random draws considered.
AiInputs(Menu, Dts, Rnds, until) ==
    /\ phase = "inputs"
    /\ ~crashed
    /\ gm.state # STATE_GAME_OVER
    /\ \E dt \in Dts, intents \in Menu, rnd \in Rnds :
        /\ dt <= MAX_DT
        /\ gm.time_from_start + dt <= until
        /\ \E a \in {play_all([w |-> [World EXCEPT !.log = <<>>], ais |-> ais, out |-> intents],
                              1, rnd)} :
            /\ Install(react_all(a.w, 1, a.out, dt))
            /\ ais' = a.ais
            /\ cur' = [dt |-> dt, intents |-> a.out]
    /\ phase' = "update"
    /\ probe' = [q |-> "none"]

(* --------------------------- the AI scenario --------------------------- *)
\* the map time up to which the AI scenario runs
AiUntil == 3300

\* player 0 in the upper left corner: in a pocket of two tiles between walls
\* (pocket) or on the open floor with one block; player 1 in the far corner
AiLayout(pocket) ==
    [p \in Pos |->
        IF p = <<0, 0>> THEN "0"
        ELSE IF p = <<MapCols - 1, MapRows - 1>> THEN "1"
        ELSE IF pocket /\ p \in {<<0, 1>>, <<1, 1>>, <<2, 0>>} THEN "#"
        ELSE IF ~pocket /\ p = <<2, 1>> THEN "x"
        ELSE "."]

\* the random draws considered
AiRnds ==
    {[spin |-> 1, pick |-> p, lay |-> l, multi |-> FALSE, fire |-> FALSE, delay |-> d] :
        p \in {0, 1}, l \in BOOLEAN, d \in {REPEAT_ACTIONS[1], REPEAT_ACTIONS[2]}}

\* no key is pressed: player 0 is played by the AI, player 1 stands
NoKeys == {<<<<>>, <<>>>>}

InitAi ==
    \E pocket \in BOOLEAN, start_items \in {<<>>, <<ITEM_THROWING_GLOVE>>} :
        \E w \in {GameMap(AiLayout(pocket), start_items, <<>>, TwoTeams, RowMajorRank,
                          WallOffsetAtStart)} :
            /\ tiles = w.tiles
            /\ bombs = w.bombs
            /\ players = w.players
            /\ gm = w.gm
            /\ give = w.give
            /\ danger = w.danger
            /\ log = w.log
            /\ notified = w.notified
            /\ crashed = w.err
            /\ phase = "inputs"
            /\ cur = [dt |-> 0, intents |-> <<>>]
            /\ probe = [q |-> "none"]
            /\ ais = <<NewAI(1)>>

NextAi ==
    \/ AiInputs(NoKeys, {MAX_DT \div 2}, AiRnds, AiUntil)
    \/ MapUpdate({PlainRnd}, {})

SpecAi == InitAi /\ [][NextAi]_vars

\* the k-th AI computes its actions anew in the step
Recomputes(k) == IsReact /\ ais'[k].decided_at # ais[k].decided_at

\* C29: between two recomputations of one AI at least 100 ms of map time
\* elapse.
C29_RecomputesRarely ==
    [][\A k \in 1..Len(ais) :
        (Recomputes(k) /\ ais[k].decided_at >= 0)
            => ais'[k].decided_at - ais[k].decided_at >= REPEAT_ACTIONS[1]]_vars

\* the list holds the action a
Emits(out, a) == \E j \in 1..Len(out) : out[j] = a

\* the escape ratings of the tile of the player pl, and the danger value of
\* that tile, as the map is before the step
RatingsNow(pl) ==
    rate_bomb_escape_directions(World, get_danger_value(World, player_tile_of(pl)).w.danger.map,
                                pl, player_tile_of(pl))
DangerNow(pl) == get_danger_value(World, player_tile_of(pl)).value

\* C30: an AI that computes its actions anew on a tile without a bomb emits
\* Bomb or BombDouble only if its player has bombs left and has the throwing
\* glove or (the danger value of the tile exceeds 2000 and some escape rating
\* is > 0); on a tile with a bomb it never emits Bomb, and emits BombDouble
\* only if the player can throw and all four escape ratings are 0.
C30_BombDecision ==
    [][\A k \in 1..Len(ais) :
        Recomputes(k) =>
            LET pl == players[ais[k].player]
                out == ais'[k].outputs
            IN  IF tile_has_bomb(World, player_tile_of(pl))
                THEN /\ ~Emits(out, ACTION_BOMB)
                     /\ Emits(out, ACTION_BOMB_DOUBLE) =>
                            /\ pl.has_throwing_glove
                            /\ \A d \in 1..4 : RatingsNow(pl)[d] = 0
                ELSE (Emits(out, ACTION_BOMB) \/ Emits(out, ACTION_BOMB_DOUBLE)) =>
                            /\ pl.bombs_left > 0
                            /\ \/ pl.has_throwing_glove
                               \/ /\ DangerNow(pl) > 2000
                                  /\ \E d \in 1..4 : RatingsNow(pl)[d] > 0]_vars

\* C30 witness: the AI has just decided to lay a bomb and its player, which
\* has no throwing glove, has laid it
C30_Witness ==
    /\ phase = "update"
    /\ ais[1].decided_at = gm.time_from_start
    /\ Emits(ais[1].outputs, ACTION_BOMB)
    /\ ~players[1].has_throwing_glove
    /\ tile_has_bomb(World, player_tile_of(players[1]))

\* the AI has just decided to throw the bomb under its player
C30_ReachThrow ==
    /\ phase = "update"
    /\ ais[1].decided_at = gm.time_from_start
    /\ Emits(ais[1].outputs, ACTION_BOMB_DOUBLE)
    /\ players[1].has_throwing_glove

\* the AI has just decided, on a bomb, to run and not to throw
C30_ReachRun ==
    /\ phase = "update"
    /\ ais[1].decided_at = gm.time_from_start
    /\ ~Emits(ais[1].outputs, ACTION_BOMB_DOUBLE)
    /\ \E j \in 1..Len(bombs) : bomb_tile_of(bombs[j]) = player_tile_of(players[1])
    /\ bombs[1].time_of_existence > 0

(* ------------------- bombs stay on the grid (C31) ---------------------- *)
\* the bomb b is on a tile of the grid
OnGrid(b) == tile_is_withing_map(bomb_tile_of(b))

\* C31: every bomb in the map's bomb list has a tile position inside the
\* grid, 0 <= col < width and 0 <= row < height, whatever was laid, kicked,
\* rolled, redirected, boxed or thrown before.
C31_BombsInsideGrid == \A i \in 1..Len(bombs) : OnGrid(bombs[i])

(* ---------------- rolling along the direction (C32) -------------------- *)
Rolling == {BOMB_ROLLING_UP, BOMB_ROLLING_RIGHT, BOMB_ROLLING_DOWN, BOMB_ROLLING_LEFT}

\* an arrow on the tile of the rolling bomb b redirects it in the update
Redirected(b) ==
    /\ is_near_tile_center(b.x, b.y)
    /\ ~get_tile_raises(bomb_tile_of(b))
    /\ ArrowRedirect(b, tiles[get_tile_key(bomb_tile_of(b))].special_object) # <<b.movement, b.x, b.y>>

\* C32: in every update a bomb rolling in direction d that is neither
\* redirected by an arrow nor stopped (nor exploded) in that update moves by
\* dt/1000 x ROLLING_SPEED tiles along d only: the other coordinate is
\* unchanged.
C32_RollsAlongDirection ==
    [][IsMapUpdate =>
        \A i \in 1..Len(bombs) : \A j \in 1..Len(bombs') :
            (/\ bombs[i].movement \in Rolling
             /\ ~Redirected(bombs[i])
             /\ bombs'[j].id = bombs[i].id
             /\ bombs'[j].movement = bombs[i].movement)
                => /\ bombs'[j].x = bombs[i].x + DirVec(bombs[i].movement)[1] * cur.dt * ROLLING_SPEED
                   /\ bombs'[j].y = bombs[i].y + DirVec(bombs[i].movement)[2] * cur.dt * ROLLING_SPEED]_vars

(* ------------------------- the kick (C33) ------------------------------ *)
\* the rolling movement a kick of a player in the state gives
KickMovement(state) ==
    CASE state = STATE_WALKING_UP -> BOMB_ROLLING_UP
      [] state = STATE_WALKING_RIGHT -> BOMB_ROLLING_RIGHT
      [] state = STATE_WALKING_DOWN -> BOMB_ROLLING_DOWN
      [] state = STATE_WALKING_LEFT -> BOMB_ROLLING_LEFT
      [] OTHER -> BOMB_NO_MOVEMENT

\* the bomb at index i, lying still before the input step, was kicked in it:
\* it is the bomb at index j afterwards and rolls
KickedInStep(i, j) ==
    /\ IsReact
    /\ bombs[i].movement = BOMB_NO_MOVEMENT
    /\ bombs'[j].id = bombs[i].id
    /\ bombs'[j].movement \in Rolling

\* C33: when a walking player with the shoe kicks a bomb on its forward tile,
\* the bomb rolls in the player's walking direction and, right after the
\* realignment of the kick, is still on the tile it was on before the kick.
C33_KickKeepsTile ==
    [][\A i \in 1..Len(bombs) : \A j \in 1..Len(bombs') :
        KickedInStep(i, j)
            => /\ \E p \in 1..Len(players') :
                    /\ players'[p].has_shoe
                    /\ KickMovement(players'[p].state) = bombs'[j].movement
               /\ bomb_tile_of(bombs'[j]) = bomb_tile_of(bombs[i])]_vars

(* ------------------------- the scorch scenario ------------------------- *)
\* player 0 in the upper row between a trampoline on its left and a teleport
\* on its right, whose other end is in the middle of the map; player 1 in
\* the far corner
ScorchStart == <<1, 0>>
ScorchLayout ==
    [p \in Pos |->
        IF p = ScorchStart THEN "0"
        ELSE IF p = <<0, 0>> THEN "T"
        ELSE IF p \in {<<2, 0>>, <<MapCols - 2, 2>>} THEN "A"
        ELSE IF p = <<MapCols - 1, MapRows - 1>> THEN "1"
        ELSE "."]

\* player 0 stands on its start tile, lays a bomb there at a moment of its
\* choice, and at a later moment of its choice walks off to the left or to
\* the right without stopping; once it has come down elsewhere it stands;
\* player 1 stands
ScorchMenu ==
    LET pl == players[1]
        c == ScorchStart[1] * Milli + 500
        a == IF pl.state \in {STATE_DEAD, STATE_IN_AIR, STATE_TELEPORTING}
                \/ gm.state = STATE_WAITING_TO_PLAY
                \/ player_tile_of(pl)[2] # 0
             THEN {<<>>}
             ELSE IF pl.x < c THEN {<<ACTION_LEFT>>}
             ELSE IF pl.x > c THEN {<<ACTION_RIGHT>>}
             ELSE IF pl.bombs_left > 0 THEN {<<>>, <<ACTION_BOMB>>}
             ELSE {<<>>, <<ACTION_LEFT>>, <<ACTION_RIGHT>>}
    IN  {<<x, <<>> >> : x \in a}

InitScorch ==
    Constructed(GameMap(ScorchLayout, <<>>, <<>>, TwoTeams, RowMajorRank, WallOffsetAtStart))

NextScorch ==
    \/ SimulationInputs(ScorchMenu, {MAX_DT})
    \/ MapUpdate({PlainRnd}, {})

SpecScorch == InitScorch /\ [][NextScorch]_vars

\* the tile under the player pl carries flame or lava after the step
ScorchedAfter(pl) ==
    LET key == get_tile_key(player_tile_of(pl))
    IN  Len(tiles'[key].flames) > 0 \/ tiles'[key].special_object = SPECIAL_OBJECT_LAVA

\* C34: a player that is InAir or Teleporting is not killed by the death
\* check of a map update, whatever flame or lava is on the tile under it; a
\* living player in any other state whose tile carries flame or lava at the
\* check (no player is immortal here, and none is moved before its check)
\* is Dead at the end of that update.
C34_DeathCheck ==
    [][IsMapUpdate =>
        \A p \in 1..Len(players) :
            /\ players[p].state \in {STATE_IN_AIR, STATE_TELEPORTING}
                    => players'[p].state # STATE_DEAD
            /\ (players[p].state \notin {STATE_DEAD, STATE_IN_AIR, STATE_TELEPORTING}
                    /\ ScorchedAfter(players[p]))
                    => players'[p].state = STATE_DEAD]_vars

(* ------------------------ the teleport scenario ------------------------ *)
\* player 0 next to a teleport in the upper row, whose other end is in the
\* middle of the map; player 1 in the far corner
PortLayout ==
    [p \in Pos |->
        IF p = <<0, 0>> THEN "0"
        ELSE IF p \in {<<1, 0>>, <<3, 2>>} THEN "A"
        ELSE IF p = <<MapCols - 1, MapRows - 1>> THEN "1"
        ELSE "."]

\* player 0 walks right while it is in the upper row; in the row of the other
\* end it stands, walks left or walks right as it likes; player 1 stands
PortMenu ==
    LET pl == players[1]
        a == IF pl.state \in {STATE_DEAD, STATE_TELEPORTING} \/ gm.state = STATE_WAITING_TO_PLAY
             THEN {<<>>}
             ELSE IF player_tile_of(pl)[2] = 0 THEN {<<ACTION_RIGHT>>}
             ELSE {<<>>, <<ACTION_LEFT>>, <<ACTION_RIGHT>>}
    IN  {<<x, <<>> >> : x \in a}

InitPort ==
    Constructed(GameMap(PortLayout, <<>>, <<>>, TwoTeams, RowMajorRank, WallOffsetAtStart))

NextPort ==
    \/ SimulationInputs(PortMenu, {MAX_DT})
    \/ MapUpdate({PlainRnd}, {})

SpecPort == InitPort /\ [][NextPort]_vars

\* the map update starts a teleport of the player at index p
TeleportStarts(p) ==
    /\ IsMapUpdate
    /\ players[p].state # STATE_TELEPORTING
    /\ players'[p].state = STATE_TELEPORTING

\* the position the first direction key of the frame walks the player at
\* index p to
WalkedTo(p) ==
    LET pl == players[p]
        acts == cur'.intents[p]
        keys == {j \in 1..Len(acts) : acts[j] \in {ACTION_UP, ACTION_RIGHT, ACTION_DOWN, ACTION_LEFT}}
        first == CHOOSE j \in keys : \A k \in keys : j <= k
    IN  IF keys = {} THEN pl ELSE MoveBy(pl, acts[first], distance_to_travel(pl, cur'.dt))

\* react_to_inputs of the frame sees the player at index p walk onto a
\* different tile
SeenToChangeTile(p) ==
    /\ IsReact
    /\ players[p].state # STATE_DEAD
    /\ ~InFlightFor(players[p], cur'.dt)
    /\ player_tile_of(WalkedTo(p)) # player_tile_of(players[p])

\* C35: a teleport starts only for a player that does not wait for a tile
\* transition, and makes it wait for one; the wait ends only in a
\* react_to_inputs that sees the player walk onto a different tile. So a
\* player that arrived at the destination teleport is not sent back, however
\* many updates it stands there.
C35_NoTeleportLoop ==
    [][\A p \in 1..Len(players) :
        /\ TeleportStarts(p)
            => /\ ~players[p].wait_for_tile_transition
               /\ players'[p].wait_for_tile_transition
        /\ (players[p].wait_for_tile_transition /\ ~players'[p].wait_for_tile_transition)
            => SeenToChangeTile(p)]_vars

\* C35 witness: a player has stood for three frames and more on the centre
\* of the teleport it arrived at, the update after each frame has looked at
\* it, and it still waits for a tile transition
C35_Witness ==
    /\ phase = "inputs"
    /\ \E p \in 1..Len(players) :
        /\ players[p].state \in {STATE_IDLE_UP, STATE_IDLE_RIGHT, STATE_IDLE_DOWN, STATE_IDLE_LEFT}
        /\ players[p].state_time >= 3 * MAX_DT
        /\ tile_has_teleport(World, player_tile_of(players[p]))
        /\ is_near_tile_center(players[p].x, players[p].y)
        /\ players[p].wait_for_tile_transition

\* a player that walked off the teleport it arrived at and back onto it is
\* teleported once more, to the teleport it first stepped on
C35_ReachSecondTeleport ==
    \E p \in 1..Len(players) :
        /\ players[p].state = STATE_TELEPORTING
        /\ players[p].teleporting_to = <<1, 0>>

(* ------------------------ the block count (C36) ------------------------ *)
\* the tiles whose kind is Block
BlockTiles == {p \in Pos : tiles[p].kind = TILE_BLOCK}

\* C36: get_number_of_block_tiles() is the number of tiles whose kind is
\* Block in every reachable state, and the kind of a tile changes only from
\* Block to Floor.
C36_BlockCount ==
    /\ [](gm.number_of_blocks = Cardinality(BlockTiles))
    /\ [][\A p \in Pos :
            tiles'[p].kind # tiles[p].kind
                => tiles[p].kind = TILE_BLOCK /\ tiles'[p].kind = TILE_FLOOR]_vars

\* C36 witness: the one block of a map with walls has burnt down, the count
\* is zero and the walls stand
C36_Witness ==
    /\ gm.number_of_blocks = 0
    /\ BlockTiles = {}
    /\ phase = "inputs"
    /\ Len(notified) > 0
    /\ \E p \in Pos : tiles[p].kind = TILE_WALL
    /\ tiles[<<3, 0>>].kind = TILE_FLOOR /\ tiles[<<3, 0>>].item # NoObject

(* -------------------------- the stock scenario ------------------------- *)
\* the map time after which no key is pressed in the stock scenario
StockUntil == 8000

\* player 0 in the upper row next to a block, the map's one item under the
\* block; player 1 in the far corner
StockBlock == <<3, 0>>
StockLayout ==
    [p \in Pos |->
        IF p = <<2, 0>> THEN "0"
        ELSE IF p = StockBlock THEN "x"
        ELSE IF p = <<MapCols - 1, MapRows - 1>> THEN "1"
        ELSE "."]

\* a disease brings diarrhea here
StockRnd == [PlainRnd EXCEPT !.disease = DISEASE_DIARRHEA]

\* player 0 lays a bomb beside the block and walks off to the left (with the
\* throwing glove it may throw the bomb first, with the shoe it may turn and
\* kick it); when the block is gone it walks right and takes the item, then
\* stands, walks left and lays bombs or multibombs as it likes; player 1
\* stands
StockMenu ==
    LET pl == players[1]
        pt == player_tile_of(pl)
        a == IF pl.state = STATE_DEAD \/ gm.state = STATE_WAITING_TO_PLAY
                \/ gm.time_from_start > StockUntil
             THEN {<<>>}
             ELSE IF tiles[StockBlock].kind = TILE_BLOCK
             THEN IF Len(notified) = 0 THEN {<<ACTION_BOMB>>}
                  ELSE IF pt = <<2, 0>> /\ tile_has_bomb(World, pt)
                          /\ pl.has_throwing_glove /\ ~pl.wait_for_bomb_release
                       THEN {<<ACTION_LEFT>>, <<ACTION_BOMB_DOUBLE>>}
                  ELSE IF pt = <<1, 0>> /\ pl.has_shoe /\ tile_has_bomb(World, <<2, 0>>)
                       THEN {<<ACTION_LEFT>>, <<ACTION_RIGHT>>}
                  ELSE IF pl.x > 500 THEN {<<ACTION_LEFT>>}
                  ELSE {<<>>}
             ELSE IF tiles[StockBlock].item # NoObject THEN {<<ACTION_RIGHT>>}
             ELSE {<<>>, <<ACTION_LEFT>>, <<ACTION_BOMB>>, <<ACTION_LEFT, ACTION_BOMB>>,
                   <<ACTION_BOMB_DOUBLE>>}
    IN  {<<x, <<>> >> : x \in a}

InitStock ==
    \E start_items \in {<<>>, <<ITEM_MULTIBOMB, ITEM_BOMB>>, <<ITEM_THROWING_GLOVE>>, <<ITEM_SHOE>>} :
        \E map_items \in {<<ITEM_BOMB>>, <<ITEM_DISEASE>>} :
            Constructed(GameMap(StockLayout, start_items, map_items, TwoTeams, RowMajorRank,
                                WallOffsetAtStart))

NextStock ==
    \/ SimulationInputs(StockMenu, {MAX_DT})
    \/ MapUpdate({StockRnd}, {})

SpecStock == InitStock /\ [][NextStock]_vars

\* the bombs of the player at index p among the bombs bs: those that have not
\* exploded yet
Unexploded(bs, p) == Cardinality({i \in 1..Len(bs) : bs[i].player = p})

\* the number of Bomb items among items
BombItems(items) ==
    LET S == {k \in 1..Len(items) : items[k].item = ITEM_BOMB}
    IN  IF S = {} THEN 0 ELSE items[CHOOSE k \in S : TRUE].amount

\* C37: bombs_left of every player is never negative, and bombs_left plus
\* the number of the player's bombs that have not yet exploded changes in no
\* step of laying, throwing, kicking or exploding: it grows by one exactly
\* when the player receives a Bomb item.
C37_BombStock ==
    /\ [](\A p \in 1..Len(players) : players[p].bombs_left >= 0)
    /\ [][\A p \in 1..Len(players) :
            players'[p].bombs_left + Unexploded(bombs', p)
                = players[p].bombs_left + Unexploded(bombs, p)
                    + BombItems(players'[p].items) - BombItems(players[p].items)]_vars

\* C37 witness: player 0 started with the one bomb of every player, took the
\* Bomb item its first bomb had freed, and laid two bombs that have not
\* exploded yet
C37_Witness ==
    /\ BombItems(players[1].items) = 2
    /\ ~players[1].has_multibomb
    /\ players[1].bombs_left = 0
    /\ Unexploded(bombs, 1) = 2
    /\ notified[1] = 1

\* a diarrhea bomb was laid, a row of multibombs was laid, a bomb was thrown
\* and a bomb was kicked
C37_ReachDiarrhea ==
    /\ players[1].disease = DISEASE_DIARRHEA
    /\ Unexploded(bombs, 1) > 0
    /\ cur.intents[1] = <<>>
    /\ \E i \in 1..Len(bombs) : bombs[i].time_of_existence = 0

C37_ReachMultibomb ==
    /\ players[1].has_multibomb
    /\ Unexploded(bombs, 1) >= 2
    /\ \E i \in 1..Len(bombs) : bomb_tile_of(bombs[i])[2] # 0 \/ bomb_tile_of(bombs[i])[1] > 3

C37_ReachThrown == \E i \in 1..Len(bombs) : bombs[i].movement = BOMB_FLYING

C37_ReachKicked == \E i \in 1..Len(bombs) : bombs[i].movement \in Rolling

(* ------------------------- the flight scenario ------------------------- *)
\* player 0 steps right onto ThrowFrom, lays a bomb there and throws it at
\* once; it lays its second bomb as soon as it can and throws it when it likes;
\* while a bomb flies and it tracks bombs with a detonator it presses Special
\* or not; player 1 stands
FlightMenu ==
    LET pl == players[1]
        pt == player_tile_of(pl)
        a == IF pl.state = STATE_DEAD THEN {<<>>}
             ELSE IF Len(notified) = 0
             THEN IF pt # ThrowFrom THEN {<<ACTION_RIGHT>>} ELSE {<<ACTION_BOMB>>}
             ELSE IF LyingOn(bombs, pt) # {} /\ ~pl.wait_for_bomb_release
             THEN IF Len(notified) = 1 THEN {<<ACTION_BOMB_DOUBLE>>}
                  ELSE {<<>>, <<ACTION_BOMB_DOUBLE>>}
             ELSE IF (\E i \in 1..Len(bombs) : bombs[i].movement = BOMB_FLYING)
                     /\ Len(pl.detonator_bombs) > 0
             THEN {<<>>, <<ACTION_SPECIAL>>}
             ELSE IF Len(notified) = 1 /\ pl.bombs_left > 0 /\ LyingOn(bombs, pt) = {}
                     /\ ~pl.wait_for_bomb_release
             THEN {<<ACTION_BOMB>>}
             ELSE {<<>>}
    IN  {<<x, <<>> >> : x \in a}

InitFlight ==
    \E what \in {".", "V"} :
        \E start_items \in {<<ITEM_THROWING_GLOVE, ITEM_BOMB>>,
                            <<ITEM_THROWING_GLOVE, ITEM_BOMB, ITEM_DETONATOR>>} :
            Constructed(GameMap(ThrowLayout(what), start_items, <<>>, TwoTeams,
                                RowMajorRank, WallOffsetAtStart))

NextFlight ==
    \/ SimulationInputs(FlightMenu, {MAX_DT})
    \/ MapUpdate({PlainRnd}, {})

SpecFlight == InitFlight /\ [][NextFlight]_vars

\* the flying bomb b reaches the end of its flight in an update of dt ms
EndsFlight(b, dt) ==
    b.distance_travelled + dt * FLYING_SPEED >= b.total_distance_to_travel * Milli

\* C38: a bomb never explodes in Flying mode, whether its fuse has run out,
\* lava or a flame is on the tile under it or its owner fires the detonator:
\* every explosion is of a bomb whose movement is not Flying, and a bomb that
\* was flying before a step is gone after it only if the step is an update
\* in which its flight ended first.
C38_NoExplosionInFlight ==
    /\ [](\A j \in 1..Len(log) : log[j].movement # BOMB_FLYING)
    /\ [][\A i \in 1..Len(bombs) :
            (bombs[i].movement = BOMB_FLYING /\ ~StillOnMap(bombs[i].id))
                => IsMapUpdate /\ EndsFlight(bombs[i], cur.dt)]_vars

\* C38 witness: an update has passed over a flying bomb whose fuse had run
\* out, and the bomb still flies
C38_Witness ==
    /\ phase = "inputs"
    /\ \E i \in 1..Len(bombs) :
        /\ bombs[i].movement = BOMB_FLYING
        /\ bombs[i].distance_travelled > 0
        /\ bombs[i].time_of_existence > bombs[i].explodes_in + bombs[i].detonator_time + MAX_DT

\* the same with a flame on the tile under the flying bomb, with lava under
\* it, and after its owner pressed Special for its detonator
C38_ReachOverFlame ==
    /\ phase = "inputs"
    /\ \E i \in 1..Len(bombs) :
        /\ bombs[i].movement = BOMB_FLYING
        /\ bombs[i].distance_travelled > 0
        /\ tile_has_flame(World, bomb_tile_of(bombs[i]))

C38_ReachOverLava ==
    /\ phase = "inputs"
    /\ \E i \in 1..Len(bombs) :
        /\ bombs[i].movement = BOMB_FLYING
        /\ bombs[i].distance_travelled > 0
        /\ is_near_tile_center(bombs[i].x, bombs[i].y)
        /\ tile_has_lava(World, bomb_tile_of(bombs[i]))

C38_ReachDetonatorPressed ==
    /\ phase = "update"
    /\ cur.intents[1] = <<ACTION_SPECIAL>>
    /\ \E i \in 1..Len(bombs) :
        /\ bombs[i].movement = BOMB_FLYING
        /\ has_detonator(bombs[i])
        /\ \A k \in 1..Len(players[1].detonator_bombs) : players[1].detonator_bombs[k] # bombs[i].id

(* ------------------- players stay on the floor (C39) ------------------- *)
\* the player pl stands on a tile of the grid whose kind is Floor or that is
\* a Block marked to_be_destroyed
OnFloor(pl) ==
    LET t == player_tile_of(pl)
    IN  /\ tile_is_withing_map(t)
        /\ \/ tiles[t].kind = TILE_FLOOR
           \/ tiles[t].kind = TILE_BLOCK /\ tiles[t].to_be_destroyed

\* C39: after every react_to_inputs and every map update each living player
\* that is not InAir is on a tile inside the map whose kind is Floor or that
\* is a to_be_destroyed Block.
C39_PlayersOnFloor ==
    \A p \in 1..Len(players) :
        players[p].state \notin {STATE_DEAD, STATE_IN_AIR} => OnFloor(players[p])

(* -------------------------- the slide scenario ------------------------- *)
\* the map time after which no key is pressed in the slide scenario
SlideUntil == 3300

\* player 0 in the upper row, a wall diagonally below it on the right;
\* player 1 in the far corner
SlideLayout ==
    [p \in Pos |->
        IF p = <<1, 0>> THEN "0"
        ELSE IF p = <<2, 1>> THEN "#"
        ELSE IF p = <<MapCols - 1, MapRows - 1>> THEN "1"
        ELSE "."]

\* player 0 lays a bomb on its start tile, then walks in any direction or
\* stands, frame by frame; player 1 stands
SlideMenu ==
    LET pl == players[1]
        a == IF pl.state = STATE_DEAD \/ gm.state = STATE_WAITING_TO_PLAY
                \/ gm.time_from_start > SlideUntil
             THEN {<<>>}
             ELSE IF Len(notified) = 0 THEN {<<ACTION_BOMB>>}
             ELSE {<<>>, <<ACTION_UP>>, <<ACTION_RIGHT>>, <<ACTION_DOWN>>, <<ACTION_LEFT>>}
    IN  {<<x, <<>> >> : x \in a}

InitSlide ==
    Constructed(GameMap(SlideLayout, <<>>, <<>>, TwoTeams, RowMajorRank, WallOffsetAtStart))

NextSlide ==
    \/ SimulationInputs(SlideMenu, {MAX_DT})
    \/ MapUpdate({PlainRnd}, {})

SpecSlide == InitSlide /\ [][NextSlide]_vars

(* --------------------- flights come to an end (C40) -------------------- *)
\* Game.run calls simulation_step once per frame for as long as the round
\* lasts: the first half of a step is due under the guard of
\* SimulationInputs with dt = MAX_DT, and taking it hands over to the update
InputsDue ==
    /\ phase = "inputs"
    /\ ~crashed
    /\ gm.state # STATE_GAME_OVER
    /\ gm.time_from_start + MAX_DT <= MaxTime
    /\ phase' = "update"

\* the second half of a step is due under the guard of MapUpdate
UpdateDue ==
    /\ phase = "update"
    /\ ~crashed
    /\ phase' = "inputs"

\* the throw scenario in which simulation steps keep occurring: every step
\* of NextThrow changes phase, so a half step that stays due is taken
SpecThrowFair ==
    /\ InitThrow
    /\ [][NextThrow]_vars
    /\ WF_phase(InputsDue)
    /\ WF_phase(UpdateDue)

\* the tiles of the row or column the flying bomb b moves along
FlightLine(b) ==
    {t \in Pos : IF b.direction[1] # 0 THEN t[2] = bomb_tile_of(b)[2]
                 ELSE t[1] = bomb_tile_of(b)[1]}

\* the bomb object id flies, and a tile of its flight line is walkable and
\* holds neither a player nor a teleport
FliesWithRoomToLand(id) ==
    \E i \in 1..Len(bombs) :
        /\ bombs[i].id = id
        /\ bombs[i].movement = BOMB_FLYING
        /\ \E t \in FlightLine(bombs[i]) :
            /\ tile_is_walkable(World, t)
            /\ ~tile_has_player(World, t)
            /\ ~tile_has_teleport(World, t)

\* the bomb object id lies still
LiesStill(id) ==
    \E i \in 1..Len(bombs) : bombs[i].id = id /\ bombs[i].movement = BOMB_NO_MOVEMENT

\* C40: while updates keep occurring, a flying bomb with a tile of its
\* flight line free to land on becomes stationary after finitely many
\* updates; it does not rebound forever.
C40_FlightEnds == FliesWithRoomToLand(1) ~> LiesStill(1)

\* C40 witness: the bomb came down on the Wall or the Block of the landing
\* tile, was sent on and lies still on the next tile of the row
C40_Witness ==
    /\ tiles[ThrowOnto].kind # TILE_FLOOR
    /\ \E i \in 1..Len(bombs) :
        /\ bombs[i].movement = BOMB_NO_MOVEMENT
        /\ bomb_tile_of(bombs[i]) = <<(ThrowOnto[1] + 1) % MapCols, ThrowOnto[2]>>

====
